---------------------------- MODULE Spec2Model ----------------------------
(***************************************************************************)
(* sqlite-serve: an nginx module that maps a request to a parameterised    *)
(* SELECT query and renders the rows through a Handlebars template.        *)
(*                                                                         *)
(* Text (queries, paths, parameter names, messages) is modelled as a      *)
(* sequence of one-character strings, so that trim, to_uppercase,          *)
(* starts_with, Path::extension and format! are computed, not assumed.     *)
(***************************************************************************)
EXTENDS Integers, Sequences, FiniteSets, TLC

VARIABLES
    config,      \* config.rs ModuleConfig: the raw directive values of a location
    parsed,      \* the outcome of the last validation call made on config
    bindings,    \* a Vec<ParameterBinding> handed to resolve_parameters
    resolvers,   \* two VariableResolver implementations
    resolutions, \* what resolve_parameters returned with each of them
    vconfig,     \* the request's ValidatedConfig
    main_conf,   \* config.rs MainConfig
    request,     \* the nginx request: its headers and its variables
    disk,        \* the files on disk: template directories, database files
    logger,      \* the Logger of each RequestProcessor, with what it wrote
    pc,          \* the step of process_request the request is at
    resolved_params, \* process_request: resolved_params
    content_type,    \* process_request: content_type
    registry,    \* the request's HandlebarsAdapter registry
    results,     \* RequestProcessor::process: results
    presult,     \* what RequestProcessor::process returned
    body,        \* the body execute_json or execute_with_processor returned
    ret,         \* the Status process_request returned
    status,      \* the status set on the request
    response,    \* the Content-Type header and the body given to nginx
    calls        \* the collaborator calls made so far, in order

parseVars == <<config, parsed>>
resolveVars == <<bindings, resolvers, resolutions>>
reqEnv == <<vconfig, main_conf, request, disk, logger>>
reqRun == <<pc, resolved_params, content_type, registry, results, presult,
            body, ret, status, response, calls>>
requestVars == <<reqEnv, reqRun>>
vars == <<parseVars, resolveVars, requestVars>>

(***************************************************************************)
(* Bounds of the model.                                                    *)
(***************************************************************************)
MaxPad == 1        \* longest run of whitespace put around a query text
MaxPrefix == 2     \* longest free prefix put in front of a template suffix
MaxParams == 2     \* longest sqlite_param list

(***************************************************************************)
(* Text.                                                                   *)
(***************************************************************************)
S(str) == [i \in 1..Len(str) |-> SubSeq(str, i, i)]

SeqsUpTo(alphabet, n) == UNION {[1..k -> alphabet] : k \in 0..n}

Range(f) == {f[i] : i \in DOMAIN f}

LowerLetters == S("abcdefghijklmnopqrstuvwxyz")
UpperLetters == S("ABCDEFGHIJKLMNOPQRSTUVWXYZ")

\* char::is_whitespace, on the characters the model uses
is_whitespace(c) == c \in {" ", "\t", "\n", "\r"}

\* str::trim: drops leading and trailing whitespace
trim(s) ==
    LET keep == {i \in 1..Len(s) : ~is_whitespace(s[i])}
    IN  IF keep = {} THEN <<>>
        ELSE LET first == CHOOSE i \in keep : \A j \in keep : i <= j
                 last == CHOOSE i \in keep : \A j \in keep : j <= i
             IN  SubSeq(s, first, last)

\* char::to_uppercase on ASCII
upper_char(c) ==
    IF \E i \in 1..26 : LowerLetters[i] = c
    THEN UpperLetters[CHOOSE i \in 1..26 : LowerLetters[i] = c]
    ELSE c

\* str::to_uppercase
to_uppercase(s) == [i \in 1..Len(s) |-> upper_char(s[i])]

\* str::starts_with
starts_with(s, prefix) ==
    /\ Len(prefix) <= Len(s)
    /\ SubSeq(s, 1, Len(prefix)) = prefix

\* str::find: the first position (from 1) where needle occurs, 0 when none
find(s, needle) ==
    LET hits == {i \in 1..(Len(s) - Len(needle) + 1) :
                    SubSeq(s, i, i + Len(needle) - 1) = needle}
    IN  IF hits = {} THEN 0 ELSE CHOOSE i \in hits : \A j \in hits : i <= j

\* str::contains
contains(s, needle) == find(s, needle) # 0

Ok(v) == [ok |-> TRUE, value |-> v, err |-> <<>>]
Err(msg) == [ok |-> FALSE, value |-> <<>>, err |-> msg]

(***************************************************************************)
(* types.rs: validated domain values.                                      *)
(***************************************************************************)
\* DatabasePath::parse
DatabasePath_parse(path) ==
    IF path = <<>> THEN Err(S("database path cannot be empty"))
    ELSE Ok(path)

SqlQuery_parse_no_trim(query) ==
    LET trimmed == to_uppercase(query)
    IN  IF trimmed = <<>> THEN Err(S("query cannot be empty"))
        ELSE IF ~starts_with(trimmed, S("SELECT"))
             THEN Err(S("only SELECT queries are allowed"))
             ELSE Ok(query)

\* SqlQuery::parse
SqlQuery_parse(query) ==
    LET trimmed == to_uppercase(trim(query))
    IN  IF trimmed = <<>> THEN Err(S("query cannot be empty"))
        ELSE IF ~starts_with(trimmed, S("SELECT"))
             THEN Err(S("only SELECT queries are allowed"))
             ELSE Ok(query)

\* std::path::Path::file_name: the last component when it is a normal one.
\* Separators repeat freely, "." components and a trailing separator are
\* normalised away, and a path that ends in ".." has no file name.
Path_file_name(path) ==
    LET n == Len(path)
        \* the ends of the components: a non-separator followed by a
        \* separator or by the end of the path
        ends == {j \in 1..n : path[j] # "/" /\ (j = n \/ path[j + 1] = "/")}
        startOf(j) ==
            CHOOSE i \in 1..j :
                /\ \A k \in i..j : path[k] # "/"
                /\ (i = 1 \/ path[i - 1] = "/")
        comps == {j \in ends : SubSeq(path, startOf(j), j) # <<".">>}
    IN  IF comps = {} THEN [some |-> FALSE, value |-> <<>>]
        ELSE LET j == CHOOSE e \in comps : \A f \in comps : f <= e
                 name == SubSeq(path, startOf(j), j)
             IN  IF name = <<".", ".">> THEN [some |-> FALSE, value |-> <<>>]
                 ELSE [some |-> TRUE, value |-> name]

\* the part of a file name after its last dot, when a non-empty part is
\* in front of that dot
ExtensionOf(name) ==
    LET dots == {i \in 1..Len(name) : name[i] = "."}
    IN  IF dots = {} THEN [some |-> FALSE, value |-> <<>>]
        ELSE LET d == CHOOSE i \in dots : \A j \in dots : j <= i
             IN  IF d = 1 THEN [some |-> FALSE, value |-> <<>>]
                 ELSE [some |-> TRUE, value |-> SubSeq(name, d + 1, Len(name))]

\* std::path::Path::extension
Path_extension(path) ==
    LET f == Path_file_name(path)
    IN  IF ~f.some THEN [some |-> FALSE, value |-> <<>>]
        ELSE ExtensionOf(f.value)

\* std::path::Path::file_stem
Path_file_stem(path) ==
    LET f == Path_file_name(path)
    IN  IF ~f.some THEN [some |-> FALSE, value |-> <<>>]
        ELSE IF ExtensionOf(f.value).some
             THEN [some |-> TRUE,
                   value |-> SubSeq(f.value, 1,
                        Len(f.value) - Len(ExtensionOf(f.value).value) - 1)]
             ELSE f

TemplatePath_parse_ignore_case(path) ==
    IF path = <<>> THEN Err(S("template path cannot be empty"))
    ELSE IF ~(Path_extension(path).some
              /\ to_uppercase(Path_extension(path).value) = S("HBS"))
         THEN Err(S("template must be a .hbs file"))
         ELSE Ok(path)

\* TemplatePath::parse
TemplatePath_parse(path) ==
    IF path = <<>> THEN Err(S("template path cannot be empty"))
    ELSE IF Path_extension(path) # [some |-> TRUE, value |-> S("hbs")]
         THEN Err(S("template must be a .hbs file"))
         ELSE Ok(path)

\* NginxVariable::parse
NginxVariable_parse(name) ==
    IF name = <<>> THEN Err(S("variable name cannot be empty"))
    ELSE IF ~starts_with(name, S("$"))
         THEN Err(S("variable name must start with $: ") \o name)
         ELSE IF SubSeq(name, 2, Len(name)) = <<>>
              THEN Err(S("variable name after $ cannot be empty"))
              ELSE Ok(name)

\* ParamName::parse
ParamName_parse(name) ==
    IF name = <<>> THEN Err(S("parameter name cannot be empty"))
    ELSE IF ~starts_with(name, S(":"))
         THEN Err(S("parameter name must start with :: ") \o name)
         ELSE Ok(name)

\* ParamName::positional
ParamName_positional == <<>>

\* enum ParameterBinding
Positional(variable) ==
    [kind |-> "Positional", name |-> <<>>, variable |-> variable, value |-> <<>>]
PositionalLiteral(value) ==
    [kind |-> "PositionalLiteral", name |-> <<>>, variable |-> <<>>, value |-> value]
Named(name, variable) ==
    [kind |-> "Named", name |-> name, variable |-> variable, value |-> <<>>]
NamedLiteral(name, value) ==
    [kind |-> "NamedLiteral", name |-> name, variable |-> <<>>, value |-> value]


(***************************************************************************)
(* parsing.rs: raw directive values to typed bindings.                     *)
(***************************************************************************)
\* a raw sqlite_param pair as config.rs stores it
RawParam(param_name, var_name) == [param_name |-> param_name, var_name |-> var_name]

binding_of_unchecked_literal_name(p) ==
    IF starts_with(p.var_name, S("$"))
    THEN LET variable == NginxVariable_parse(p.var_name)
         IN  IF ~variable.ok
             THEN Err(S("invalid variable '") \o p.var_name \o S("': ") \o variable.err)
             ELSE IF p.param_name = <<>>
                  THEN Ok(Positional(variable.value))
                  ELSE LET name == ParamName_parse(p.param_name)
                       IN  IF ~name.ok
                           THEN Err(S("invalid param name '") \o p.param_name
                                    \o S("': ") \o name.err)
                           ELSE Ok(Named(name.value, variable.value))
    ELSE IF p.param_name = <<>>
         THEN Ok(PositionalLiteral(p.var_name))
         ELSE Ok(NamedLiteral(p.param_name, p.var_name))

\* parse_parameter_bindings, the body of its loop: one raw pair to a binding
binding_of(p) ==
    IF starts_with(p.var_name, S("$"))
    THEN LET variable == NginxVariable_parse(p.var_name)
         IN  IF ~variable.ok
             THEN Err(S("invalid variable '") \o p.var_name \o S("': ") \o variable.err)
             ELSE IF p.param_name = <<>>
                  THEN Ok(Positional(variable.value))
                  ELSE LET name == ParamName_parse(p.param_name)
                       IN  IF ~name.ok
                           THEN Err(S("invalid param name '") \o p.param_name
                                    \o S("': ") \o name.err)
                           ELSE Ok(Named(name.value, variable.value))
    ELSE IF p.param_name = <<>>
         THEN Ok(PositionalLiteral(p.var_name))
         ELSE LET name == ParamName_parse(p.param_name)
              IN  IF ~name.ok
                  THEN Err(S("invalid param name '") \o p.param_name
                           \o S("': ") \o name.err)
                  ELSE Ok(NamedLiteral(name.value, p.var_name))

\* parse_parameter_bindings, its loop from pair i on: `?` returns the first
\* error, and with it drops the bindings pushed so far
RECURSIVE parse_bindings_from(_, _, _)
parse_bindings_from(params, i, pushed) ==
    IF i > Len(params) THEN Ok(pushed)
    ELSE LET binding == binding_of(params[i])
         IN  IF ~binding.ok THEN Err(binding.err)
             ELSE parse_bindings_from(params, i + 1, Append(pushed, binding.value))

\* parse_parameter_bindings
parse_parameter_bindings(params) == parse_bindings_from(params, 1, <<>>)

(***************************************************************************)
(* The directive values the validation functions are applied to.           *)
(***************************************************************************)
Pads == SeqsUpTo({" ", "\t", "\n"}, MaxPad)

Keywords ==
    {S("SELECT"), S("select"), S("SeLeCt"), S("SELEC"), S("SELECTED"),
     S("S ELECT"), S("XSELECT"), S("INSERT"), S("UPDATE"), S("DELETE"),
     S("DROP"), S("CREATE"), S("ALTER"), <<>>}

Tails == {<<>>, S(" 1"), S(" * FROM t; SELECT 2")}

QueryInputs ==
    {a \o k \o t \o b : a \in Pads, k \in Keywords, t \in Tails, b \in Pads}

TemplateSuffixes ==
    {<<>>, S("x"), S("hbs"), S(".hbs"), S("x.hbs"), S(".HBS"), S(".Hbs"),
     S(".html"), S(".handlebars"), S(".hb"), S(".hbsx"), S(".hbs."),
     S(".hbs/"), S(".hbs/."), S(".hbs/.."), S(".hbs/x")}

TemplateInputs ==
    {a \o b : a \in SeqsUpTo({"x", ".", "/"}, MaxPrefix), b \in TemplateSuffixes}

ParamNames == {<<>>, S(":id"), S("id"), S(":")}
VarNames == {S("$arg_id"), S("$"), S("lit"), <<>>, S("a$b")}
RawParams == {RawParam(n, v) : n \in ParamNames, v \in VarNames}
RawParamLists == SeqsUpTo(RawParams, MaxParams)

\* ModuleConfig::default, with the three required directives set
BaseConfig ==
    [db_path |-> S("t.db"), query |-> S("SELECT 1"),
     template_path |-> S("t.hbs"), query_params |-> <<>>]

NoCall == [fn |-> "none", result |-> Ok(<<>>)]

ParseIdle == config = BaseConfig /\ parsed = NoCall

ResolveIdle == bindings = <<>> /\ resolvers = <<>> /\ resolutions = <<>>

\* no request is in progress
RequestIdle ==
    /\ vconfig = <<>> /\ main_conf = <<>> /\ request = <<>> /\ disk = <<>>
    /\ logger = <<>>
    /\ pc = "idle" /\ resolved_params = <<>> /\ content_type = "none"
    /\ registry = {} /\ results = <<>> /\ presult = <<>> /\ body = <<>>
    /\ ret = "none" /\ status = "unset" /\ response = <<>> /\ calls = <<>>

ParseInit ==
    /\ ResolveIdle
    /\ RequestIdle
    /\ config \in {[BaseConfig EXCEPT !.query = q] : q \in QueryInputs}
            \cup {[BaseConfig EXCEPT !.template_path = p] : p \in TemplateInputs}
            \cup {[BaseConfig EXCEPT !.query_params = l] : l \in RawParamLists}
    /\ parsed = NoCall

\* SqlQuery::parse(&config.query)
CallSqlQueryParse ==
    /\ parsed = NoCall
    /\ parsed' = [fn |-> "SqlQuery::parse", result |-> SqlQuery_parse(config.query)]
    /\ UNCHANGED <<config, resolveVars, requestVars>>

\* TemplatePath::parse(&config.template_path)
CallTemplatePathParse ==
    /\ parsed = NoCall
    /\ parsed' = [fn |-> "TemplatePath::parse",
                  result |-> TemplatePath_parse(config.template_path)]
    /\ UNCHANGED <<config, resolveVars, requestVars>>

\* parse_parameter_bindings(&config.query_params)
CallParseParameterBindings ==
    /\ parsed = NoCall
    /\ parsed' = [fn |-> "parse_parameter_bindings",
                  result |-> parse_parameter_bindings(config.query_params)]
    /\ UNCHANGED <<config, resolveVars, requestVars>>

ParseNext ==
    \/ CallSqlQueryParse
    \/ CallTemplatePathParse
    \/ CallParseParameterBindings

SpecParse == ParseInit /\ [][ParseNext]_vars

(***************************************************************************)
(* Validation of single values.                                            *)
(***************************************************************************)
\* q is optional whitespace, then the six letters of SELECT in either case
IsSelectText(q) ==
    \E i \in 0..(Len(q) - 6) :
        /\ \A k \in 1..i : q[k] \in {" ", "\t", "\n", "\r"}
        /\ \A k \in 1..6 : q[i + k] \in {S("SELECT")[k], S("select")[k]}

\* C1: SqlQuery::parse(q) succeeds exactly when q is whitespace followed by
\* SELECT in any letter case; a q with other text is rejected with a message
\* naming SELECT; the accepted query is stored exactly as given.
C1_SqlQueryParse ==
    parsed.fn = "SqlQuery::parse" =>
        LET q == config.query
            r == parsed.result
        IN  /\ r.ok <=> IsSelectText(q)
            /\ r.ok => r.value = q
            /\ ~r.ok => r.value = <<>>
            /\ (~r.ok /\ \E k \in 1..Len(q) : q[k] \notin {" ", "\t", "\n", "\r"})
                   => contains(r.err, S("SELECT"))

\* a lower-case query with whitespace on both sides was accepted
C1_Witness ==
    /\ parsed.fn = "SqlQuery::parse"
    /\ parsed.result.ok
    /\ config.query = S("\tselect 1\n")

\* p ends, up to ignored trailing separators and "." components, in a file
\* name that is a non-empty stem followed by ".hbs"
HasHbsFileName(p) ==
    \E j \in 5..Len(p) :
        /\ SubSeq(p, j - 3, j) = S(".hbs")
        /\ p[j - 4] # "/"
        /\ \A k \in (j + 1)..Len(p) :
              \/ p[k] = "/"
              \/ /\ p[k] = "."
                 /\ p[k - 1] = "/"
                 /\ (k = Len(p) \/ p[k + 1] = "/")

\* C2: TemplatePath::parse(p) succeeds exactly when p is non-empty and its
\* file name is a non-empty stem followed by the case-sensitive extension
\* "hbs"; the rejection of another extension mentions ".hbs"; the accepted
\* path is stored unchanged.
C2_TemplatePathParse ==
    parsed.fn = "TemplatePath::parse" =>
        LET p == config.template_path
            r == parsed.result
        IN  /\ r.ok <=> (p # <<>> /\ HasHbsFileName(p))
            /\ r.ok => r.value = p
            /\ (~r.ok /\ p # <<>>) => contains(r.err, S(".hbs"))

\* a path with two dots in its file name was accepted
C2_Witness ==
    /\ parsed.fn = "TemplatePath::parse"
    /\ parsed.result.ok
    /\ config.template_path = S("x.x.hbs")

\* the binding the two independent tests give for a raw pair
ExpectedBinding(p) ==
    LET isVar == p.var_name # <<>> /\ p.var_name[1] = "$"
        isPos == p.param_name = <<>>
    IN  [kind |-> IF isVar THEN (IF isPos THEN "Positional" ELSE "Named")
                  ELSE (IF isPos THEN "PositionalLiteral" ELSE "NamedLiteral"),
         name |-> p.param_name,
         variable |-> IF isVar THEN p.var_name ELSE <<>>,
         value |-> IF isVar THEN <<>> ELSE p.var_name]

ValidRawParam(p) ==
    /\ p.var_name # <<"$">>
    /\ p.param_name = <<>> \/ p.param_name[1] = ":"

\* C3: parse_parameter_bindings succeeds exactly when no pair has a bare "$"
\* as its value and every non-empty parameter name starts with ':'; it then
\* returns one binding per pair, in order, classified by the two tests
\* (value starts with '$': variable, else literal; empty name: positional,
\* else named); on an error it returns no binding list.
C3_ParseParameterBindings ==
    parsed.fn = "parse_parameter_bindings" =>
        LET l == config.query_params
            r == parsed.result
        IN  /\ r.ok <=> \A i \in 1..Len(l) : ValidRawParam(l[i])
            /\ r.ok => /\ Len(r.value) = Len(l)
                       /\ \A i \in 1..Len(l) : r.value[i] = ExpectedBinding(l[i])
            /\ ~r.ok => r.value = <<>> /\ r.err # <<>>

\* a list mixing a named literal and a positional variable was parsed
C3_Witness ==
    /\ parsed.fn = "parse_parameter_bindings"
    /\ parsed.result.ok
    /\ config.query_params =
          <<RawParam(S(":id"), S("lit")), RawParam(<<>>, S("$arg_id"))>>


(***************************************************************************)
(* domain.rs: parameter resolution.                                        *)
(***************************************************************************)
IsVariableBinding(b) == b.kind \in {"Positional", "Named"}
IsLiteralBinding(b) == b.kind \in {"PositionalLiteral", "NamedLiteral"}

Pair_without_name(name, value) == [name |-> <<>>, value |-> value]

\* one resolved (name, value) pair
Pair(name, value) == [name |-> name, value |-> value]

\* a VariableResolver is modelled by what resolve(var_name) returns for each
\* text it may be asked about; resolve_from also returns the texts the
\* resolver was asked about, in call order
RECURSIVE resolve_from_asking_for_literals(_, _, _, _, _)
resolve_from_asking_for_literals(bs, resolver, i, resolved, asked) ==
    IF i > Len(bs) THEN [result |-> Ok(resolved), asked |-> asked]
    ELSE LET b == bs[i]
             key == IF IsVariableBinding(b) THEN b.variable ELSE b.value
             value == resolver[key]
         IN  IF ~value.ok
             THEN [result |-> Err(value.err), asked |-> Append(asked, key)]
             ELSE resolve_from_asking_for_literals(bs, resolver, i + 1,
                      Append(resolved, Pair(b.name, value.value)),
                      Append(asked, key))

RECURSIVE resolve_from_skipping_failures(_, _, _, _, _)
resolve_from_skipping_failures(bs, resolver, i, resolved, asked) ==
    IF i > Len(bs) THEN [result |-> Ok(resolved), asked |-> asked]
    ELSE LET b == bs[i]
         IN  IF IsVariableBinding(b)
             THEN LET value == resolver[b.variable]
                  IN  resolve_from_skipping_failures(bs, resolver, i + 1,
                          IF value.ok
                          THEN Append(resolved, Pair(b.name, value.value))
                          ELSE resolved,
                          Append(asked, b.variable))
             ELSE resolve_from_skipping_failures(bs, resolver, i + 1,
                      Append(resolved, Pair(b.name, b.value)), asked)

\* resolve_parameters, its loop from binding i on
RECURSIVE resolve_from(_, _, _, _, _)
resolve_from(bs, resolver, i, resolved, asked) ==
    IF i > Len(bs) THEN [result |-> Ok(resolved), asked |-> asked]
    ELSE LET b == bs[i]
         IN  CASE b.kind = "Positional" ->
                    LET value == resolver[b.variable]
                    IN  IF ~value.ok
                        THEN [result |-> Err(value.err),
                              asked |-> Append(asked, b.variable)]
                        ELSE resolve_from(bs, resolver, i + 1,
                                 Append(resolved, Pair(<<>>, value.value)),
                                 Append(asked, b.variable))
               [] b.kind = "PositionalLiteral" ->
                    resolve_from(bs, resolver, i + 1,
                        Append(resolved, Pair(<<>>, b.value)), asked)
               [] b.kind = "Named" ->
                    LET value == resolver[b.variable]
                    IN  IF ~value.ok
                        THEN [result |-> Err(value.err),
                              asked |-> Append(asked, b.variable)]
                        ELSE resolve_from(bs, resolver, i + 1,
                                 Append(resolved, Pair(b.name, value.value)),
                                 Append(asked, b.variable))
               [] b.kind = "NamedLiteral" ->
                    resolve_from(bs, resolver, i + 1,
                        Append(resolved, Pair(b.name, b.value)), asked)

resolve_parameters_asking_for_literals(bs, resolver) ==
    resolve_from_asking_for_literals(bs, resolver, 1, <<>>, <<>>)

\* resolve_parameters
resolve_parameters(bs, resolver) == resolve_from(bs, resolver, 1, <<>>, <<>>)

(***************************************************************************)
(* resolve_parameters under two resolver implementations.                  *)
(***************************************************************************)
ResolveRawLists ==
    SeqsUpTo({RawParam(n, v) : n \in {<<>>, S(":id")},
                               v \in {S("$a"), S("$b"), S("lit")}}, MaxParams)

\* the binding lists parse_parameter_bindings produces from them
BindingLists ==
    {parse_parameter_bindings(l).value :
        l \in {m \in ResolveRawLists : parse_parameter_bindings(m).ok}}

ResolverKeys == {S("$a"), S("$b"), S("lit")}

\* every resolver that, for each text, returns one fixed value or fails
\* with an error naming the text
Resolvers ==
    {[k \in ResolverKeys |->
         IF k \in known THEN Ok(S("7")) ELSE Err(S("unknown variable: ") \o k)] :
        known \in SUBSET ResolverKeys}

NotRun == [result |-> Err(<<>>), asked |-> <<"not run">>]

ResolveInit ==
    /\ ParseIdle
    /\ RequestIdle
    /\ bindings \in BindingLists
    /\ resolvers \in [1..2 -> Resolvers]
    /\ resolutions = [r \in 1..2 |-> NotRun]

\* resolve_parameters(&bindings, &mut resolvers[r])
CallResolveParameters(r) ==
    /\ resolutions[r] = NotRun
    /\ resolutions' =
          [resolutions EXCEPT ![r] = resolve_parameters(bindings, resolvers[r])]
    /\ UNCHANGED <<parseVars, bindings, resolvers, requestVars>>

ResolveNext == \E r \in 1..2 : CallResolveParameters(r)

SpecResolve == ResolveInit /\ [][ResolveNext]_vars

\* the variable names of the variable bindings of a list, in order
RECURSIVE VariableRefs(_)
VariableRefs(bs) ==
    IF bs = <<>> THEN <<>>
    ELSE (IF IsVariableBinding(Head(bs)) THEN <<Head(bs).variable>> ELSE <<>>)
             \o VariableRefs(Tail(bs))

IsPrefix(s, t) == Len(s) <= Len(t) /\ SubSeq(t, 1, Len(s)) = s

AlwaysFails(resolver) == \A k \in DOMAIN resolver : ~resolver[k].ok

\* C5: whatever the resolver, resolve_parameters asks it only about the
\* variable bindings (never about a literal), a literal binding of a resolved
\* list carries exactly its configured value, and a list made of literals
\* only resolves successfully, to the same pairs under both resolvers.
C5_LiteralsIgnoreResolver ==
    /\ \A r \in 1..2 :
          resolutions[r] # NotRun =>
              LET res == resolutions[r]
              IN  /\ IsPrefix(res.asked, VariableRefs(bindings))
                  /\ res.result.ok =>
                        /\ Len(res.result.value) = Len(bindings)
                        /\ \A i \in 1..Len(bindings) :
                              IsLiteralBinding(bindings[i]) =>
                                  res.result.value[i].value = bindings[i].value
                  /\ (\A i \in 1..Len(bindings) : IsLiteralBinding(bindings[i]))
                        => res.result.ok /\ res.asked = <<>>
    /\ (/\ resolutions[1] # NotRun
        /\ resolutions[2] # NotRun
        /\ \A i \in 1..Len(bindings) : IsLiteralBinding(bindings[i]))
           => resolutions[1] = resolutions[2]

\* two literals were resolved by a resolver that always fails and by one
\* that never does
C5_Witness ==
    /\ Len(bindings) = 2
    /\ \A i \in 1..2 : IsLiteralBinding(bindings[i])
    /\ AlwaysFails(resolvers[1])
    /\ \A k \in ResolverKeys : resolvers[2][k].ok
    /\ resolutions[1] # NotRun /\ resolutions[1].result.ok
    /\ resolutions[2] # NotRun


\* C26: in every list resolve_parameters returns, pair i has the empty name
\* exactly when binding i is Positional or PositionalLiteral, and otherwise
\* the binding's name, which starts with ':'; the list has one pair per
\* binding, in order, and the value of a variable binding is what the
\* resolver returned for its name with the '$' in front.
C26_NamesFollowBindings ==
    \A r \in 1..2 :
        (resolutions[r] # NotRun /\ resolutions[r].result.ok) =>
            LET v == resolutions[r].result.value
            IN  /\ Len(v) = Len(bindings)
                /\ \A i \in 1..Len(bindings) :
                      LET b == bindings[i]
                      IN  /\ v[i].name = <<>>
                                <=> b.kind \in {"Positional", "PositionalLiteral"}
                          /\ b.kind \in {"Named", "NamedLiteral"} =>
                                /\ v[i].name = b.name
                                /\ b.name # <<>>
                                /\ b.name[1] = ":"
                          /\ IsVariableBinding(b) =>
                                /\ b.variable[1] = "$"
                                /\ resolvers[r][b.variable].ok
                                /\ v[i].value = resolvers[r][b.variable].value

\* a named variable followed by a positional literal was resolved
C26_Witness ==
    /\ Len(bindings) = 2
    /\ bindings[1].kind = "Named"
    /\ bindings[2].kind = "PositionalLiteral"
    /\ resolutions[1] # NotRun
    /\ resolutions[1].result.ok
    /\ resolutions[1].result.value[1].name = S(":id")
    /\ resolutions[1].result.value[2].name = <<>>

\* the first variable binding the resolver fails for, 0 when there is none
FirstFailure(resolver) ==
    LET failing == {i \in 1..Len(bindings) :
                       /\ IsVariableBinding(bindings[i])
                       /\ ~resolver[bindings[i].variable].ok}
    IN  IF failing = {} THEN 0
        ELSE CHOOSE i \in failing : \A j \in failing : i <= j

\* C30: resolve_parameters asks the resolver once for each variable binding,
\* in declaration order, up to and including the first one it fails for;
\* it then returns that failure's error and no list, and asks for no later
\* binding.
C30_FailFast ==
    \A r \in 1..2 :
        resolutions[r] # NotRun =>
            LET k == FirstFailure(resolvers[r])
                res == resolutions[r]
            IN  IF k = 0
                THEN /\ res.result.ok
                     /\ res.asked = VariableRefs(bindings)
                ELSE /\ ~res.result.ok
                     /\ res.result.err = resolvers[r][bindings[k].variable].err
                     /\ res.result.value = <<>>
                     /\ res.asked = VariableRefs(SubSeq(bindings, 1, k))

\* the resolver failed for the first of two variables and was not asked
\* about the second, for which it would have failed too
C30_Witness ==
    /\ Len(bindings) = 2
    /\ bindings[1].kind = "Named" /\ bindings[1].variable = S("$a")
    /\ bindings[2].kind = "Positional" /\ bindings[2].variable = S("$b")
    /\ ~resolvers[1][S("$a")].ok
    /\ ~resolvers[1][S("$b")].ok
    /\ resolutions[1] # NotRun
    /\ resolutions[1].asked = <<S("$a")>>
    /\ resolutions[1].result.err = S("unknown variable: $a")


(***************************************************************************)
(* parsing.rs parse_config and domain.rs ValidatedConfig.                  *)
(***************************************************************************)
parse_config_template_first(c, doc_root, uri) ==
    LET db_path == DatabasePath_parse(c.db_path)
        query == SqlQuery_parse(c.query)
        template_path == TemplatePath_parse(c.template_path)
        parameters == parse_parameter_bindings(c.query_params)
    IN  IF ~db_path.ok THEN Err(S("invalid db_path: ") \o db_path.err)
        ELSE IF ~template_path.ok
             THEN Err(S("invalid template_path: ") \o template_path.err)
        ELSE IF ~query.ok THEN Err(S("invalid query: ") \o query.err)
        ELSE IF ~parameters.ok THEN Err(parameters.err)
        ELSE Ok([db_path |-> db_path.value, query |-> query.value,
                 template_path |-> template_path.value,
                 parameters |-> parameters.value,
                 doc_root |-> doc_root, uri |-> uri])

\* parse_config: the four checks in their order, `?` returning the first error
parse_config(c, doc_root, uri) ==
    LET db_path == DatabasePath_parse(c.db_path)
        query == SqlQuery_parse(c.query)
        template_path == TemplatePath_parse(c.template_path)
        parameters == parse_parameter_bindings(c.query_params)
    IN  IF ~db_path.ok THEN Err(S("invalid db_path: ") \o db_path.err)
        ELSE IF ~query.ok THEN Err(S("invalid query: ") \o query.err)
        ELSE IF ~template_path.ok
             THEN Err(S("invalid template_path: ") \o template_path.err)
        ELSE IF ~parameters.ok THEN Err(parameters.err)
        ELSE Ok([db_path |-> db_path.value, query |-> query.value,
                 template_path |-> template_path.value,
                 parameters |-> parameters.value,
                 doc_root |-> doc_root, uri |-> uri])

\* Option<ValidConfigToken>
None == [some |-> FALSE, value |-> <<>>]
Some(v) == [some |-> TRUE, value |-> v]

from_config_dropping_parameters(c, doc_root, uri) ==
    IF c.db_path = <<>> \/ c.query = <<>> \/ c.template_path = <<>> THEN None
    ELSE LET r == parse_config([c EXCEPT !.query_params = <<>>], doc_root, uri)
         IN  IF r.ok THEN Some([config |-> r.value]) ELSE None

\* ValidConfigToken::from_config: the three emptiness tests, then parse_config
\* with its error dropped by .ok()
from_config(c, doc_root, uri) ==
    IF c.db_path = <<>> \/ c.query = <<>> \/ c.template_path = <<>> THEN None
    ELSE LET r == parse_config(c, doc_root, uri)
         IN  IF r.ok THEN Some([config |-> r.value]) ELSE None

\* std::path::Path::parent: the path without its last component and without
\* the separators and "." components in front of it
Path_parent(path) ==
    LET n == Len(path)
        ends == {j \in 1..n : path[j] # "/" /\ (j = n \/ path[j + 1] = "/")}
        startOf(j) ==
            CHOOSE i \in 1..j :
                /\ \A k \in i..j : path[k] # "/"
                /\ (i = 1 \/ path[i - 1] = "/")
        \* "." is a component only at the very start of a relative path
        comps == {j \in ends : SubSeq(path, startOf(j), j) # <<".">> \/ j = 1}
    IN  IF comps = {} THEN [some |-> FALSE, value |-> <<>>]
        ELSE LET last == CHOOSE e \in comps : \A f \in comps : f <= e
                 before == {j \in comps : j < last}
             IN  IF before # {}
                 THEN [some |-> TRUE,
                       value |-> SubSeq(path, 1,
                                    CHOOSE e \in before : \A f \in before : f <= e)]
                 ELSE IF path[1] = "/" THEN [some |-> TRUE, value |-> <<"/">>]
                      ELSE [some |-> TRUE, value |-> <<>>]

resolve_template_path_joined(vc) ==
    LET full_path == (IF starts_with(vc.uri, S("/")) THEN <<>> ELSE vc.doc_root)
                         \o vc.uri \o <<"/">> \o vc.template_path
        parent == Path_parent(full_path)
    IN  [full_path |-> full_path,
         directory |-> IF parent.some THEN parent.value ELSE <<>>]

\* ValidatedConfig::resolve_template_path
resolve_template_path(vc) ==
    LET full_path == vc.doc_root \o vc.uri \o <<"/">> \o vc.template_path
        parent == Path_parent(full_path)
    IN  [full_path |-> full_path,
         directory |-> IF parent.some THEN parent.value ELSE <<>>]

(***************************************************************************)
(* variable.rs and adapters.rs: nginx variables as the resolver.           *)
(***************************************************************************)
\* what ngx_http_get_variable finds for a name in a request
NotFound == [found |-> FALSE, valid |-> FALSE, utf8 |-> FALSE, text |-> <<>>]
NotValid == [found |-> TRUE, valid |-> FALSE, utf8 |-> FALSE, text |-> <<>>]
NotUtf8 == [found |-> TRUE, valid |-> TRUE, utf8 |-> FALSE, text |-> <<>>]
Value(text) == [found |-> TRUE, valid |-> TRUE, utf8 |-> TRUE, text |-> text]

\* resolve_nginx_variable
resolve_nginx_variable(req, var_name) ==
    LET var_value == IF SubSeq(var_name, 2, Len(var_name)) \in DOMAIN req.variables
                     THEN req.variables[SubSeq(var_name, 2, Len(var_name))]
                     ELSE NotFound
    IN  IF ~var_value.found THEN Err(S("variable not found: ") \o var_name)
        ELSE IF ~var_value.valid THEN Err(S("variable not valid: ") \o var_name)
        ELSE IF ~var_value.utf8
             THEN Err(S("invalid UTF-8 in variable: ") \o var_name)
             ELSE Ok(var_value.text)

\* resolve_variable
resolve_variable(req, var_name) ==
    IF starts_with(var_name, S("$")) THEN resolve_nginx_variable(req, var_name)
    ELSE Ok(var_name)

\* NginxVariableResolver::resolve, for every name a binding list can ask about
NginxVariableResolver(req, bs) ==
    [k \in {bs[i].variable : i \in 1..Len(bs)} |-> resolve_variable(req, k)]

(***************************************************************************)
(* content_type.rs                                                         *)
(***************************************************************************)
\* str::eq_ignore_ascii_case
eq_ignore_ascii_case(a, b) == to_uppercase(a) = to_uppercase(b)

\* negotiate_content_type, the test made on one Accept value
prefers_json(value) ==
    LET value_lower == [i \in 1..Len(value) |->
                          IF \E k \in 1..26 : UpperLetters[k] = value[i]
                          THEN LowerLetters[CHOOSE k \in 1..26 : UpperLetters[k] = value[i]]
                          ELSE value[i]]
        json_pos == find(value_lower, S("application/json"))
        html_pos == find(value_lower, S("text/html"))
    IN  /\ json_pos # 0
        /\ html_pos = 0 \/ json_pos < html_pos

\* headers_in.headers, an ngx_list_t: the elements of its first part, and
\* the elements of the parts linked after it
HeaderList(part, next) == [part |-> part, next |-> next]

\* the elements nginx puts in one part of headers_in.headers
HeadersPerPart == 20

\* negotiate_content_type: Json at the first Accept header that prefers it;
\* the loop runs over headers.part.elts, headers.part.nelts times, and does
\* not follow part.next
negotiate_content_type(req) ==
    IF \E i \in 1..Len(req.headers.part) :
          /\ eq_ignore_ascii_case(req.headers.part[i].key, S("accept"))
          /\ prefers_json(req.headers.part[i].value)
    THEN "Json"
    ELSE "Html"

\* ContentType::content_type_header
content_type_header(ct) ==
    IF ct = "Html" THEN S("text/html; charset=utf-8")
    ELSE S("application/json; charset=utf-8")


(***************************************************************************)
(* query.rs: execute_query against a store.                                *)
(*                                                                         *)
(* A store says whether the file opens, whether the statement prepares,    *)
(* which placeholders the prepared statement has (<<>> stands for "?"),    *)
(* which rows the query yields, each a sequence of cells of a column name  *)
(* and a stored value, and at which row stepping or reading fails (0: at   *)
(* none; one more than the number of rows: at the step after the last).    *)
(***************************************************************************)
Store(open_ok, prepare_ok, placeholders, rows, fail_at) ==
    [open_ok |-> open_ok, prepare_ok |-> prepare_ok,
     placeholders |-> placeholders, rows |-> rows, fail_at |-> fail_at]

\* rusqlite::types::ValueRef; a real is named by its text, bytes are 0..255
SqlNull == [type |-> "Null", int |-> 0, real |-> "", bytes |-> <<>>]
SqlInteger(v) == [type |-> "Integer", int |-> v, real |-> "", bytes |-> <<>>]
SqlReal(v) == [type |-> "Real", int |-> 0, real |-> v, bytes |-> <<>>]
SqlText(bytes) == [type |-> "Text", int |-> 0, real |-> "", bytes |-> bytes]
SqlBlob(bytes) == [type |-> "Blob", int |-> 0, real |-> "", bytes |-> bytes]

\* serde_json::Value; the chars of a string are code points
JsonNull == [json |-> "null", int |-> 0, real |-> "", chars |-> <<>>]
JsonInteger(v) == [json |-> "integer", int |-> v, real |-> "", chars |-> <<>>]
JsonReal(v) == [json |-> "real", int |-> 0, real |-> v, chars |-> <<>>]
JsonString(chars) == [json |-> "string", int |-> 0, real |-> "", chars |-> chars]

\* f64::is_finite
is_finite(v) == v \notin {"NaN", "inf", "-inf"}

\* serde_json::Number::from_f64: None for a value that is not finite
Number_from_f64(v) ==
    IF is_finite(v) THEN [some |-> TRUE, value |-> JsonReal(v)]
    ELSE [some |-> FALSE, value |-> JsonNull]

\* char::REPLACEMENT_CHARACTER
REPLACEMENT_CHARACTER == 65533

\* String::from_utf8_lossy from byte i on, for bytes below the leads of
\* three- and four-byte sequences: a byte below 128 is its own character, a
\* lead of a two-byte sequence with its continuation byte is one character,
\* and every other byte is replaced
RECURSIVE from_utf8_lossy_from(_, _)
from_utf8_lossy_from(bytes, i) ==
    IF i > Len(bytes) THEN <<>>
    ELSE IF bytes[i] < 128
         THEN <<bytes[i]>> \o from_utf8_lossy_from(bytes, i + 1)
         ELSE IF /\ bytes[i] \in 194..223
                 /\ i < Len(bytes)
                 /\ bytes[i + 1] \in 128..191
              THEN <<(bytes[i] - 192) * 64 + (bytes[i + 1] - 128)>>
                   \o from_utf8_lossy_from(bytes, i + 2)
              ELSE <<REPLACEMENT_CHARACTER>> \o from_utf8_lossy_from(bytes, i + 1)

from_utf8_lossy(bytes) == from_utf8_lossy_from(bytes, 1)

\* the code point of hexadecimal digit n in lower case
hex_digit(n) == IF n < 10 THEN 48 + n ELSE 87 + n

hex_byte_unpadded(b) ==
    IF b < 16 THEN <<hex_digit(b)>> ELSE <<hex_digit(b \div 16), hex_digit(b % 16)>>

\* format!("{:02x}", b)
hex_byte(b) == <<hex_digit(b \div 16), hex_digit(b % 16)>>

\* v.iter().map(|b| format!("{:02x}", b)).collect::<String>()
RECURSIVE hex_string(_)
hex_string(bytes) ==
    IF bytes = <<>> THEN <<>> ELSE hex_byte(Head(bytes)) \o hex_string(Tail(bytes))

\* row_to_map, the match on row.get_ref(i)
json_value(v) ==
    CASE v.type = "Null" -> JsonNull
      [] v.type = "Integer" -> JsonInteger(v.int)
      [] v.type = "Real" -> Number_from_f64(v.real).value
      [] v.type = "Text" -> JsonString(from_utf8_lossy(v.bytes))
      [] v.type = "Blob" -> JsonString(hex_string(v.bytes))

\* one column of a row: the name the statement gives it and the stored value
Cell(column, value) == [column |-> column, value |-> value]

\* row_to_map: the columns inserted in their order into a HashMap, a later
\* column of the same name replacing the earlier one
row_to_map(row) ==
    [c \in {row[i].column : i \in 1..Len(row)} |->
        json_value(row[CHOOSE i \in 1..Len(row) :
                          /\ row[i].column = c
                          /\ \A j \in (i + 1)..Len(row) : row[j].column # c].value)]

collect_keeping_rows(rows, fail_at) ==
    IF fail_at \in 1..(Len(rows) + 1)
    THEN Ok([i \in 1..(fail_at - 1) |-> row_to_map(rows[i])])
    ELSE Ok([i \in 1..Len(rows) |-> row_to_map(rows[i])])

\* rows.collect(): every row converted in order, or the error of the first
\* row that cannot be stepped to or read, whatever was converted before it
collect(rows, fail_at) ==
    IF fail_at \in 1..(Len(rows) + 1)
    THEN Err(S("database disk image is malformed"))
    ELSE Ok([i \in 1..Len(rows) |-> row_to_map(rows[i])])

\* one parameter as it is handed to the statement: by name or by position
ByName(name, value) == [by |-> "name", name |-> name, index |-> 0, value |-> value]
ByPosition(index, value) ==
    [by |-> "position", name |-> <<>>, index |-> index, value |-> value]

\* the parameters handed to query_map, each pair by its own name or position
submit_per_pair(params) ==
    [i \in 1..Len(params) |->
        IF params[i].name # <<>> THEN ByName(params[i].name, params[i].value)
        ELSE ByPosition(i, params[i].value)]

\* execute_query: the parameters handed to query_map; has_named_params is
\* computed once over the whole list
submit(params) ==
    LET has_named_params == \E i \in 1..Len(params) : params[i].name # <<>>
    IN  IF has_named_params
        THEN [i \in 1..Len(params) |-> ByName(params[i].name, params[i].value)]
        ELSE [i \in 1..Len(params) |-> ByPosition(i, params[i].value)]

\* rusqlite's binding of what query_map is given: a name the statement does
\* not have, or a positional list of the wrong length, is an error
bind(placeholders, submitted) ==
    IF \E i \in 1..Len(submitted) :
          submitted[i].by = "name" /\ submitted[i].name \notin (Range(placeholders) \ {<<>>})
    THEN Err(S("Invalid parameter name"))
    ELSE IF /\ \A i \in 1..Len(submitted) : submitted[i].by = "position"
            /\ Len(submitted) # Len(placeholders)
         THEN Err(S("Wrong number of parameters"))
         ELSE Ok(submitted)

NothingSubmitted == <<[by |-> "nothing", name |-> <<>>, index |-> 0, value |-> <<>>]>>

\* execute_query: Ok with every row, or the first error
execute_query(store, params) ==
    IF ~store.open_ok
    THEN [result |-> Err(S("unable to open database file")),
          submitted |-> NothingSubmitted]
    ELSE IF ~store.prepare_ok
         THEN [result |-> Err(S("no such table")), submitted |-> NothingSubmitted]
         ELSE LET bound == bind(store.placeholders, submit(params))
              IN  IF ~bound.ok
                  THEN [result |-> Err(bound.err), submitted |-> submit(params)]
                  ELSE [result |-> collect(store.rows, store.fail_at),
                        submitted |-> submit(params)]

(***************************************************************************)
(* template.rs: the Handlebars registry over a file system.                *)
(*                                                                         *)
(* A directory is a set of entries [name, is_file, content]; a file system *)
(* maps the directories that exist to their entries. The content "BAD" is  *)
(* text Handlebars cannot compile. A registry maps names to the content    *)
(* compiled under them.                                                    *)
(***************************************************************************)
Entry(name, is_file, content) ==
    [name |-> name, is_file |-> is_file, content |-> content]

\* Handlebars::new
EmptyRegistry == {}

Registered(reg, name) == \E e \in reg : e.name = name

TemplateOf(reg, name) == (CHOOSE e \in reg : e.name = name).content

\* the registry with name bound to content, a previous binding replaced
Insert(reg, name, content) ==
    {e \in reg : e.name # name} \cup {[name |-> name, content |-> content]}

\* the entry at a path: the file name of the path within its parent directory
FileAt(files, path) ==
    LET dir == Path_parent(path)
        name == Path_file_name(path)
    IN  IF dir.some /\ name.some /\ dir.value \in DOMAIN files
           /\ \E e \in files[dir.value] : e.name = name.value
        THEN [some |-> TRUE,
              entry |-> CHOOSE e \in files[dir.value] : e.name = name.value]
        ELSE [some |-> FALSE, entry |-> Entry(<<>>, FALSE, "")]

register_template_file_keeping_first(reg, files, name, path) ==
    LET f == FileAt(files, path)
    IN  IF ~f.some \/ ~f.entry.is_file
        THEN [registry |-> reg, result |-> Err(S("No such file or directory"))]
        ELSE IF f.entry.content = "BAD"
             THEN [registry |-> reg, result |-> Err(S("Template syntax error"))]
             ELSE IF Registered(reg, name)
                  THEN [registry |-> reg, result |-> Ok(<<>>)]
                  ELSE [registry |-> Insert(reg, name, f.entry.content),
                        result |-> Ok(<<>>)]

\* Handlebars::register_template_file: reads and compiles the file at path
\* and binds it to name; on an error the registry is left as it was
register_template_file(reg, files, name, path) ==
    LET f == FileAt(files, path)
    IN  IF ~f.some \/ ~f.entry.is_file
        THEN [registry |-> reg, result |-> Err(S("No such file or directory"))]
        ELSE IF f.entry.content = "BAD"
             THEN [registry |-> reg, result |-> Err(S("Template syntax error"))]
             ELSE [registry |-> Insert(reg, name, f.entry.content),
                   result |-> Ok(<<>>)]

RECURSIVE load_entries_from_stopping(_, _, _, _, _, _, _)
load_entries_from_stopping(reg, files, dir_path, order, io_error_at, i, count) ==
    IF i > Len(order) THEN [registry |-> reg, result |-> Ok(count)]
    ELSE IF i = io_error_at
         THEN [registry |-> reg, result |-> Err(S("Input/output error"))]
         ELSE LET path == dir_path \o <<"/">> \o order[i].name
                  extension_matches ==
                      Path_extension(path) = [some |-> TRUE, value |-> S("hbs")]
                  stem == Path_file_stem(path)
                  registered ==
                      register_template_file(reg, files, stem.value, path)
              IN  IF ~order[i].is_file \/ ~extension_matches \/ ~stem.some
                  THEN load_entries_from_stopping(reg, files, dir_path, order,
                                                  io_error_at, i + 1, count)
                  ELSE IF ~registered.result.ok
                       THEN [registry |-> reg, result |-> registered.result]
                       ELSE load_entries_from_stopping(registered.registry, files,
                                dir_path, order, io_error_at, i + 1, count + 1)

\* load_templates_from_dir, its loop over the entries in read order from
\* entry i on; entry number io_error_at cannot be read (0: every entry can)
RECURSIVE load_entries_from(_, _, _, _, _, _, _)
load_entries_from(reg, files, dir_path, order, io_error_at, i, count) ==
    IF i > Len(order) THEN [registry |-> reg, result |-> Ok(count)]
    ELSE IF i = io_error_at
         THEN [registry |-> reg, result |-> Err(S("Input/output error"))]
         ELSE LET path == dir_path \o <<"/">> \o order[i].name
                  extension_matches ==
                      Path_extension(path) = [some |-> TRUE, value |-> S("hbs")]
                  stem == Path_file_stem(path)
                  registered ==
                      register_template_file(reg, files, stem.value, path)
              IN  IF ~order[i].is_file \/ ~extension_matches \/ ~stem.some
                  THEN load_entries_from(reg, files, dir_path, order,
                                         io_error_at, i + 1, count)
                  ELSE IF ~registered.result.ok
                       THEN load_entries_from(reg, files, dir_path, order,
                                              io_error_at, i + 1, count)
                       ELSE load_entries_from(registered.registry, files,
                                dir_path, order, io_error_at, i + 1, count + 1)

load_templates_from_dir_strict(reg, files, dir_path, order, io_error_at) ==
    IF dir_path \notin DOMAIN files
    THEN [registry |-> reg, result |-> Err(S("No such file or directory"))]
    ELSE load_entries_from(reg, files, dir_path, order, io_error_at, 1, 0)

\* load_templates_from_dir (HandlebarsAdapter::load_from_dir): order is the
\* order in which read_dir yields the entries
load_templates_from_dir(reg, files, dir_path, order, io_error_at) ==
    IF dir_path \notin DOMAIN files
    THEN [registry |-> reg, result |-> Ok(0)]
    ELSE load_entries_from(reg, files, dir_path, order, io_error_at, 1, 0)

\* the orders in which read_dir may yield the entries of a directory
ReadOrders(files, dir_path) ==
    IF dir_path \notin DOMAIN files THEN {<<>>}
    ELSE {o \in [1..Cardinality(files[dir_path]) -> files[dir_path]] :
             \A i, j \in DOMAIN o : i # j => o[i] # o[j]}

register_template_dropping_others(reg, files, name, path) ==
    LET r == register_template_file(reg, files, name, path)
    IN  [registry |-> IF r.result.ok
                      THEN {e \in r.registry : e.name = name}
                      ELSE reg,
         result |-> r.result]

\* HandlebarsAdapter::register_template
register_template(reg, files, name, path) ==
    register_template_file(reg, files, name, path)

\* what a template renders from its data: the compiled content applied to
\* the data, kept as the pair of the two
Rendered(content, data) == [template |-> content, data |-> data]

\* HandlebarsAdapter::render: an unregistered name is an error, and so is a
\* template the data makes fail (render_ok false)
render(reg, template_name, data, render_ok) ==
    IF ~Registered(reg, template_name)
    THEN Err(S("Template not found"))
    ELSE IF ~render_ok THEN Err(S("Error rendering template"))
         ELSE Ok(Rendered(TemplateOf(reg, template_name), data))


(***************************************************************************)
(* handler_types.rs and nginx_helpers.rs: one request through              *)
(* process_request, a step per collaborator call.                          *)
(***************************************************************************)
HTTP_OK == 200
HTTP_BAD_REQUEST == 400
HTTP_INTERNAL_SERVER_ERROR == 500

\* a response body: the rendered page, the HTML error page around an error
\* text, the JSON row list, or the JSON error object
RenderedBody(out) ==
    [kind |-> "rendered", template |-> out.template, rows |-> out.data.results,
     error |-> <<>>, details |-> <<>>]
ErrorPage(e) ==
    [kind |-> "error_page", template |-> "", rows |-> <<>>,
     error |-> S("Request Processing Error"), details |-> e]
JsonRows(rows) ==
    [kind |-> "json_rows", template |-> "", rows |-> rows,
     error |-> <<>>, details |-> <<>>]
JsonError(e) ==
    [kind |-> "json_error", template |-> "", rows |-> <<>>,
     error |-> S("Query execution failed"), details |-> e]
NoBody ==
    [kind |-> "none", template |-> "", rows |-> <<>>, error |-> <<>>, details |-> <<>>]

\* the record of one collaborator call: what was called, with what, and
\* what it returned
ExecuteCall(db_path, query, params, q) ==
    [op |-> "execute", args |-> <<db_path, query, params>>,
     ok |-> q.result.ok, value |-> q.result.value, submitted |-> q.submitted]
LoadCall(dir_path, l) ==
    [op |-> "load_from_dir", args |-> <<dir_path>>,
     ok |-> l.result.ok, value |-> l.result.value, submitted |-> <<>>]
RegisterCall(name, path, r) ==
    [op |-> "register_template", args |-> <<name, path>>,
     ok |-> r.result.ok, value |-> <<>>, submitted |-> <<>>]
RenderCall(name, data, r) ==
    [op |-> "render", args |-> <<name, data>>,
     ok |-> r.ok, value |-> r.value, submitted |-> <<>>]


\* the location of the model: sqlite_db, sqlite_query and sqlite_template
\* set, every sqlite_param list over a variable and a literal
RequestRawConfigs ==
    {[BaseConfig EXCEPT !.query_params = l] :
        l \in SeqsUpTo({RawParam(n, v) : n \in {<<>>, S(":id")},
                                         v \in {S("$a"), S("lit")}}, MaxParams)}

DocRoot == S("r")
Uri == S("/b")

\* the ValidatedConfig values ValidConfigToken hands to process_request
RequestConfigs ==
    {parse_config(c, DocRoot, Uri).value :
        c \in {d \in RequestRawConfigs : parse_config(d, DocRoot, Uri).ok}}

LocalDir == S("r/b")
GlobalDir == S("g")

Header(key, value) == [key |-> key, value |-> value]

HeaderLists ==
    {HeaderList(<<>>, <<>>),
     HeaderList(<<Header(S("Accept"), S("application/json"))>>, <<>>),
     HeaderList(<<Header(S("accept"), S("text/html, application/json"))>>, <<>>)}

\* the query string of the request: none, or one asking for JSON
QueryArgs == {<<>>, S("format=json")}

\* the directory of the location: the main template t.hbs (absent, good or
\* not compilable) and possibly a file template.hbs
LocalEntries ==
    {m \cup x :
        m \in {{}, {Entry(S("t.hbs"), TRUE, "M")}, {Entry(S("t.hbs"), TRUE, "BAD")}},
        x \in {{}, {Entry(S("template.hbs"), TRUE, "L")}}}

\* the global template directory: absent, or with template.hbs and t.hbs
GlobalEntries ==
    {{}, {Entry(S("template.hbs"), TRUE, "G"), Entry(S("t.hbs"), TRUE, "G2")}}

\* a directory with no entry stands for one that does not exist
Disk(l, g) ==
    [d \in {x \in {LocalDir} : l # {}} \cup {x \in {GlobalDir} : g # {}} |->
        IF d = LocalDir THEN l ELSE g]

\* a row of the books table as it is stored, and as execute_query returns it
StoredRow(id) == <<Cell(S("id"), SqlInteger(id))>>
Row(id) == [c \in {S("id")} |-> JsonInteger(id)]

\* the stores a query may run against
Stores ==
    {Store(FALSE, FALSE, <<>>, <<>>, 0), Store(TRUE, FALSE, <<>>, <<>>, 0)}
    \cup {Store(TRUE, TRUE, ph, rows, fail_at) :
            ph \in {<<>>, <<<<>>>>, <<S(":id")>>, <<<<>>, <<>>>>},
            rows \in {<<>>, <<StoredRow(1), StoredRow(2)>>,
                      <<StoredRow(2), StoredRow(1)>>},
            fail_at \in {0, 1}}

RequestInit ==
    /\ ParseIdle
    /\ ResolveIdle
    /\ vconfig \in RequestConfigs
    /\ logger = <<>>
    /\ main_conf \in {[global_templates_dir |-> <<>>],
                      [global_templates_dir |-> GlobalDir]}
    /\ request \in [headers : HeaderLists, args : QueryArgs,
                    variables : [{S("a")} -> {NotFound, NotUtf8, Value(S("7"))}]]
    /\ disk \in {Disk(l, g) : l \in LocalEntries, g \in GlobalEntries}
    /\ main_conf.global_templates_dir = <<>> => GlobalDir \notin DOMAIN disk
    /\ pc = "start"
    /\ resolved_params = <<>>
    /\ content_type = "none"
    /\ registry = EmptyRegistry
    /\ results = <<>>
    /\ presult = Ok(NoBody)
    /\ body = NoBody
    /\ ret = "none"
    /\ status = "unset"
    /\ response = [content_type |-> <<>>, body |-> NoBody]
    /\ calls = <<>>

ResolveParameters_lenient ==
    /\ pc = "start"
    /\ LET r == resolve_parameters(vconfig.parameters,
                    NginxVariableResolver(request, vconfig.parameters))
       IN  /\ resolved_params' = r.result.value
           /\ pc' = "negotiate"
           /\ ret' = ret
    /\ UNCHANGED <<parseVars, resolveVars, reqEnv, content_type, registry,
                   results, presult, body, status, response, calls>>

\* process_request: resolve the template path and the parameters; a failed
\* resolution returns 400 at once
ResolveParameters ==
    /\ pc = "start"
    /\ LET r == resolve_parameters(vconfig.parameters,
                    NginxVariableResolver(request, vconfig.parameters))
       IN  IF r.result.ok
           THEN /\ resolved_params' = r.result.value
                /\ pc' = "negotiate"
                /\ ret' = ret
           ELSE /\ resolved_params' = resolved_params
                /\ pc' = "done"
                /\ ret' = "BAD_REQUEST"
    /\ UNCHANGED <<parseVars, resolveVars, reqEnv, content_type, registry,
                   results, presult, body, status, response, calls>>

\* process_request: negotiate_content_type(request)
Negotiate ==
    /\ pc = "negotiate"
    /\ content_type' = negotiate_content_type(request)
    /\ pc' = IF content_type' = "Json" THEN "execute_json" ELSE "process"
    /\ UNCHANGED <<parseVars, resolveVars, reqEnv, resolved_params, registry,
                   results, presult, body, ret, status, response, calls>>

ExecuteJson_newest_first ==
    /\ pc = "execute_json"
    /\ \E store \in Stores :
          LET q == execute_query(store, resolved_params)
              rows == q.result.value
          IN  /\ calls' = Append(calls, ExecuteCall(vconfig.db_path,
                                            vconfig.query, resolved_params, q))
              /\ body' = IF q.result.ok
                         THEN JsonRows([i \in 1..Len(rows) |-> rows[Len(rows) + 1 - i]])
                         ELSE JsonError(q.result.err)
    /\ pc' = "send"
    /\ UNCHANGED <<parseVars, resolveVars, reqEnv, resolved_params, content_type,
                   registry, results, presult, ret, status, response>>

\* execute_json: the query, then the rows or the error object as JSON
\* (serde_json cannot fail on rows of string keys and JSON values)
ExecuteJson ==
    /\ pc = "execute_json"
    /\ \E store \in Stores :
          LET q == execute_query(store, resolved_params)
          IN  /\ calls' = Append(calls, ExecuteCall(vconfig.db_path,
                                            vconfig.query, resolved_params, q))
              /\ body' = IF q.result.ok THEN JsonRows(q.result.value)
                         ELSE JsonError(q.result.err)
    /\ pc' = "send"
    /\ UNCHANGED <<parseVars, resolveVars, reqEnv, resolved_params, content_type,
                   registry, results, presult, ret, status, response>>


\* execute_with_processor: Some(dir) when sqlite_global_templates is set
global_template_dir ==
    IF main_conf.global_templates_dir # <<>>
    THEN [some |-> TRUE, value |-> main_conf.global_templates_dir]
    ELSE [some |-> FALSE, value |-> <<>>]

after_execute_skipping_global == "load_local"

\* RequestProcessor::process, the step after the query
after_execute == IF global_template_dir.some THEN "load_global" ELSE "load_local"

page_of_json(r) == IF r.ok THEN r.value ELSE JsonError(r.err)

\* execute_with_processor: the body made from what process returned
page_of(r) == IF r.ok THEN r.value ELSE ErrorPage(r.err)

\* execute_with_processor builds a new registry, then looks up the main
\* configuration with expect, which panics when the host returns none;
\* process executes the query first and returns its error at once
ProcessExecute ==
    /\ pc = "process"
    /\ registry' = EmptyRegistry
    /\ \E lookup \in {None, Some(main_conf)}, store \in Stores :
          LET q == execute_query(store, resolved_params)
          IN  IF ~lookup.some
              THEN /\ pc' = "panic"
                   /\ UNCHANGED <<calls, results, presult, body>>
              ELSE /\ calls' = Append(calls, ExecuteCall(vconfig.db_path,
                                            vconfig.query, resolved_params, q))
                   /\ IF q.result.ok
                      THEN /\ results' = q.result.value
                           /\ pc' = after_execute
                           /\ UNCHANGED <<presult, body>>
                      ELSE /\ presult' = Err(S("query execution failed: ") \o q.result.err)
                           /\ body' = page_of(presult')
                           /\ pc' = "send"
                           /\ UNCHANGED results
    /\ UNCHANGED <<parseVars, resolveVars, reqEnv, resolved_params, content_type,
                   ret, status, response>>

\* process: load_from_dir(dir) for the global directory; its result is logged
ProcessLoadGlobal ==
    /\ pc = "load_global"
    /\ \E order \in ReadOrders(disk, global_template_dir.value) :
       \E io_error_at \in 0..Len(order) :
          LET l == load_templates_from_dir(registry, disk,
                       global_template_dir.value, order, io_error_at)
          IN  /\ registry' = l.registry
              /\ calls' = Append(calls, LoadCall(global_template_dir.value, l))
    /\ pc' = "load_local"
    /\ UNCHANGED <<parseVars, resolveVars, reqEnv, resolved_params, content_type,
                   results, presult, body, ret, status, response>>

ProcessLoadLocal_failing ==
    /\ pc = "load_local"
    /\ \E order \in ReadOrders(disk, resolve_template_path(vconfig).directory) :
       \E io_error_at \in 0..Len(order) :
          LET dir == resolve_template_path(vconfig).directory
              l == load_templates_from_dir(registry, disk, dir, order, io_error_at)
          IN  /\ registry' = l.registry
              /\ calls' = Append(calls, LoadCall(dir, l))
              /\ IF l.result.ok
                 THEN pc' = "register" /\ UNCHANGED <<presult, body>>
                 ELSE /\ presult' = Err(S("failed to load templates: ") \o l.result.err)
                      /\ body' = page_of(presult')
                      /\ pc' = "send"
    /\ UNCHANGED <<parseVars, resolveVars, reqEnv, resolved_params, content_type,
                   results, ret, status, response>>

ProcessLoadLocal_global_wins ==
    /\ pc = "load_local"
    /\ \E order \in ReadOrders(disk, resolve_template_path(vconfig).directory) :
       \E io_error_at \in 0..Len(order) :
          LET dir == resolve_template_path(vconfig).directory
              l == load_templates_from_dir(registry, disk, dir, order, io_error_at)
          IN  /\ registry' = registry \cup
                     {e \in l.registry : ~Registered(registry, e.name)}
              /\ calls' = Append(calls, LoadCall(dir, l))
              /\ pc' = "register"
              /\ UNCHANGED <<presult, body>>
    /\ UNCHANGED <<parseVars, resolveVars, reqEnv, resolved_params, content_type,
                   results, ret, status, response>>

\* process: load_from_dir(resolved_template.directory()); its result is logged
ProcessLoadLocal ==
    /\ pc = "load_local"
    /\ \E order \in ReadOrders(disk, resolve_template_path(vconfig).directory) :
       \E io_error_at \in 0..Len(order) :
          LET dir == resolve_template_path(vconfig).directory
              l == load_templates_from_dir(registry, disk, dir, order, io_error_at)
          IN  /\ registry' = l.registry
              /\ calls' = Append(calls, LoadCall(dir, l))
              /\ pc' = "register"
              /\ UNCHANGED <<presult, body>>
    /\ UNCHANGED <<parseVars, resolveVars, reqEnv, resolved_params, content_type,
                   results, ret, status, response>>

ProcessRegister_continuing ==
    /\ pc = "register"
    /\ LET path == resolve_template_path(vconfig).full_path
           r == register_template(registry, disk, S("template"), path)
       IN  /\ registry' = r.registry
           /\ calls' = Append(calls, RegisterCall(S("template"), path, r))
           /\ pc' = "render"
           /\ UNCHANGED <<presult, body>>
    /\ UNCHANGED <<parseVars, resolveVars, reqEnv, resolved_params, content_type,
                   results, ret, status, response>>

\* process: register_template("template", full_path), its error returned
ProcessRegister ==
    /\ pc = "register"
    /\ LET path == resolve_template_path(vconfig).full_path
           r == register_template(registry, disk, S("template"), path)
       IN  /\ registry' = r.registry
           /\ calls' = Append(calls, RegisterCall(S("template"), path, r))
           /\ IF r.result.ok
              THEN pc' = "render" /\ UNCHANGED <<presult, body>>
              ELSE /\ presult' = Err(S("failed to register template: ") \o r.result.err)
                   /\ body' = page_of(presult')
                   /\ pc' = "send"
    /\ UNCHANGED <<parseVars, resolveVars, reqEnv, resolved_params, content_type,
                   results, ret, status, response>>

\* process: json!({"results": results})
render_data(rows) == [results |-> rows]

\* process: render("template", data); execute_with_processor returns the
\* rendered text or the error page
ProcessRender ==
    /\ pc = "render"
    /\ \E render_ok \in BOOLEAN :
          LET data == render_data(results)
              r == render(registry, S("template"), data, render_ok)
          IN  /\ calls' = Append(calls, RenderCall(S("template"), data, r))
              /\ presult' = IF r.ok THEN Ok(RenderedBody(r.value))
                            ELSE Err(S("rendering failed: ") \o r.err)
              /\ body' = page_of(presult')
    /\ pc' = "send"
    /\ UNCHANGED <<parseVars, resolveVars, reqEnv, resolved_params, content_type,
                   registry, results, ret, status, response>>

\* send_response_with_content_type: no buffer gives 500; otherwise status 200
\* and the Content-Type header are set, and the body follows unless the
\* header could not be sent or the request wants the header only
SendResponse ==
    /\ pc = "send"
    /\ \E buffer_ok \in BOOLEAN, rc \in {"NGX_OK", "NGX_ERROR"}, header_only \in BOOLEAN :
          IF ~buffer_ok
          THEN /\ ret' = "INTERNAL_SERVER_ERROR"
               /\ UNCHANGED <<status, response>>
          ELSE /\ status' = "OK"
               /\ IF rc = "NGX_ERROR" \/ header_only
                  THEN /\ ret' = rc
                       /\ response' = [content_type |-> content_type_header(content_type),
                                       body |-> NoBody]
                  ELSE /\ ret' = "NGX_DONE"
                       /\ response' = [content_type |-> content_type_header(content_type),
                                       body |-> body]
    /\ pc' = "done"
    /\ UNCHANGED <<parseVars, resolveVars, reqEnv, resolved_params, content_type,
                   registry, results, presult, body, calls>>

Next ==
    \/ ResolveParameters
    \/ Negotiate
    \/ ExecuteJson
    \/ ProcessExecute
    \/ ProcessLoadGlobal
    \/ ProcessLoadLocal
    \/ ProcessRegister
    \/ ProcessRender
    \/ SendResponse

Init == RequestInit

Spec == Init /\ [][Next]_vars


(***************************************************************************)
(* What a state of a request shows.                                        *)
(***************************************************************************)
\* the status the host answers with: the error status process_request
\* returned, or the status set on the request before the response was sent
HostStatus ==
    CASE ret = "BAD_REQUEST" -> HTTP_BAD_REQUEST
      [] ret = "INTERNAL_SERVER_ERROR" -> HTTP_INTERNAL_SERVER_ERROR
      [] ret \in {"NGX_DONE", "NGX_OK"} /\ status = "OK" -> HTTP_OK
      [] OTHER -> 0

Ops == [i \in 1..Len(calls) |-> calls[i].op]

Called(op) == \E i \in 1..Len(calls) : calls[i].op = op
Succeeded(op) == \E i \in 1..Len(calls) : calls[i].op = op /\ calls[i].ok
Failed(op) == \E i \in 1..Len(calls) : calls[i].op = op /\ ~calls[i].ok

\* the request's variables make the resolution of its bindings fail
ParamResolutionFails ==
    ~resolve_parameters(vconfig.parameters,
         NginxVariableResolver(request, vconfig.parameters)).result.ok

\* RequestProcessor::process has returned
ProcessReturned == content_type = "Html" /\ pc \in {"send", "done"}

\* C4: whenever execute_query hands parameters to the statement, it hands
\* every pair by name if some pair has a name, and otherwise every pair by
\* position, the i-th value at position i; never some by name and others by
\* position.
C4_NamedOrPositionalForAll ==
    \A c \in 1..Len(calls) :
        (calls[c].op = "execute" /\ calls[c].submitted # NothingSubmitted) =>
            LET params == calls[c].args[3]
                sub == calls[c].submitted
            IN  /\ Len(sub) = Len(params)
                /\ (\E i \in 1..Len(params) : params[i].name # <<>>) =>
                      \A i \in 1..Len(params) :
                          sub[i] = ByName(params[i].name, params[i].value)
                /\ (\A i \in 1..Len(params) : params[i].name = <<>>) =>
                      \A i \in 1..Len(params) :
                          sub[i] = ByPosition(i, params[i].value)
                /\ \A i, j \in 1..Len(sub) : sub[i].by = sub[j].by

\* a list with a named and an unnamed pair was handed to the statement
C4_Witness ==
    \E c \in 1..Len(calls) :
        /\ calls[c].op = "execute"
        /\ calls[c].submitted # NothingSubmitted
        /\ Len(calls[c].args[3]) = 2
        /\ calls[c].args[3][1].name # <<>>
        /\ calls[c].args[3][2].name = <<>>

\* C6: when the resolution of a variable binding fails, process_request
\* returns 400 before it negotiates the content type: no query, no template
\* operation, no header and no body; and 400 is returned for nothing else.
C6_ResolutionFailureIs400 ==
    /\ (ParamResolutionFails /\ pc # "start") =>
          /\ pc = "done"
          /\ HostStatus = HTTP_BAD_REQUEST
          /\ content_type = "none"
          /\ calls = <<>>
          /\ body = NoBody
          /\ status = "unset"
          /\ response = [content_type |-> <<>>, body |-> NoBody]
    /\ HostStatus = HTTP_BAD_REQUEST =>
          /\ ParamResolutionFails
          /\ ~Failed("execute") /\ ~Failed("register_template") /\ ~Failed("render")

\* a request that asks for JSON ended with 400
C6_Witness ==
    /\ pc = "done"
    /\ ParamResolutionFails
    /\ negotiate_content_type(request) = "Json"
    /\ ret = "BAD_REQUEST"

\* C7: for a request whose response nginx accepted, the status is 200
\* exactly when processing succeeded, 400 when parameter resolution failed
\* and 500 when the query, the registration of the main template or the
\* rendering failed.
C7_StatusByOutcome ==
    (pc = "done" /\ ret \in {"NGX_DONE", "BAD_REQUEST"}) =>
        /\ HostStatus = HTTP_OK <=>
              /\ ~ParamResolutionFails
              /\ ~Failed("execute")
              /\ ~Failed("register_template")
              /\ ~Failed("render")
        /\ ParamResolutionFails => HostStatus = HTTP_BAD_REQUEST
        /\ (Failed("execute") \/ Failed("register_template") \/ Failed("render"))
              => HostStatus = HTTP_INTERNAL_SERVER_ERROR

\* C8: when process returns Ok, it has called, in this order and once each:
\* execute(db_path, query, resolved_params); load_from_dir(global directory)
\* only if one is configured; load_from_dir(directory of the template);
\* register_template("template", full path); render("template", {results:
\* the rows execute returned}); and it returns what render returned.
C8_CallOrder ==
    (ProcessReturned /\ presult.ok) =>
        LET rt == resolve_template_path(vconfig)
            g == main_conf.global_templates_dir
            n == Len(calls)
        IN  /\ Ops = <<"execute">>
                     \o (IF g # <<>> THEN <<"load_from_dir">> ELSE <<>>)
                     \o <<"load_from_dir", "register_template", "render">>
            /\ calls[1].args = <<vconfig.db_path, vconfig.query, resolved_params>>
            /\ g # <<>> => calls[2].args = <<g>>
            /\ calls[n - 2].args = <<rt.directory>>
            /\ calls[n - 1].args = <<S("template"), rt.full_path>>
            /\ calls[n].args = <<S("template"), [results |-> calls[1].value]>>
            /\ calls[n].value.data.results = calls[1].value
            /\ presult = Ok(RenderedBody(calls[n].value))
            /\ body = presult.value

\* process returned Ok with a global directory configured and two rows
C8_Witness ==
    /\ ProcessReturned
    /\ presult.ok
    /\ main_conf.global_templates_dir # <<>>
    /\ Len(calls) = 5
    /\ calls[1].value = <<Row(2), Row(1)>>

\* C9: process returns Ok exactly when execute, register_template and render
\* succeeded; after a load_from_dir, whatever it returned, process goes on to
\* the next step.
C9_OnlyThreeStepsAreFatal ==
    /\ ProcessReturned =>
          (presult.ok <=> /\ Succeeded("execute")
                          /\ Succeeded("register_template")
                          /\ Succeeded("render"))
    /\ \A i \in 1..Len(calls) :
          calls[i].op = "load_from_dir" =>
              IF i < Len(calls)
              THEN calls[i + 1].op \in {"load_from_dir", "register_template"}
              ELSE pc \in {"load_local", "register"}

\* process returned Ok although both directory loads returned an error
C9_Witness ==
    /\ ProcessReturned
    /\ presult.ok
    /\ Len(calls) = 5
    /\ ~calls[2].ok
    /\ ~calls[3].ok

\* C10: when render is about to be called, and when it has been called, the
\* name "template" is bound to the content of the file at the resolved main
\* template path, whatever the directory scans bound to that name.
C10_MainTemplateWins ==
    LET main == FileAt(disk, resolve_template_path(vconfig).full_path)
    IN  /\ pc = "render" =>
              /\ main.some
              /\ Registered(registry, S("template"))
              /\ TemplateOf(registry, S("template")) = main.entry.content
        /\ \A i \in 1..Len(calls) :
              (calls[i].op = "render" /\ calls[i].ok) =>
                  calls[i].value.template = main.entry.content

\* render is about to be called after both scans registered a template.hbs
C10_Witness ==
    /\ pc = "render"
    /\ Len(calls) = 4
    /\ calls[2].ok /\ calls[2].value = 2
    /\ calls[3].ok /\ calls[3].value = 2
    /\ \E e \in disk[GlobalDir] : e.name = S("template.hbs")
    /\ \E e \in disk[LocalDir] : e.name = S("template.hbs")


\* the templates a complete scan of a directory registers: the regular files
\* with extension hbs that compile, as [name |-> stem, content |-> content]
TemplatesIn(dir_path) ==
    IF dir_path \notin DOMAIN disk THEN {}
    ELSE {[name |-> Path_file_stem(e.name).value, content |-> e.content] :
            e \in {f \in disk[dir_path] :
                     /\ f.is_file
                     /\ Path_extension(f.name) = [some |-> TRUE, value |-> S("hbs")]
                     /\ Path_file_stem(f.name).some
                     /\ f.content # "BAD"}}

\* the local load has just returned and both scans ran to their end
BothLoadsDone ==
    /\ pc = "register"
    /\ \A i \in 1..Len(calls) : calls[i].op = "load_from_dir" => calls[i].ok

MaxCalls == 3      \* most calls made on one adapter

TemplateDir == S("d")

\* the files register_template is pointed at: two templates, one that does
\* not compile, and a directory where a file is expected
TemplateDisk ==
    [d \in {TemplateDir} |->
        {Entry(S("x.hbs"), TRUE, "X"), Entry(S("y.hbs"), TRUE, "Y"),
         Entry(S("bad.hbs"), TRUE, "BAD"), Entry(S("sub.hbs"), FALSE, "")}]

TemplateNames == {S("a"), S("b")}

TemplatePaths ==
    {TemplateDir \o S("/") \o f :
        f \in {S("x.hbs"), S("y.hbs"), S("bad.hbs"), S("sub.hbs"), S("no.hbs")}}

\* nothing but the adapter is in use
AdapterOnly ==
    /\ ParseIdle
    /\ ResolveIdle
    /\ vconfig = <<>> /\ logger = <<>> /\ main_conf = <<>> /\ request = <<>>
    /\ pc = "idle" /\ resolved_params = <<>> /\ content_type = "none"
    /\ results = <<>> /\ presult = <<>> /\ body = <<>>
    /\ ret = "none" /\ status = "unset" /\ response = <<>>

adapterRest ==
    <<parseVars, resolveVars, vconfig, logger, main_conf, request, pc, resolved_params,
      content_type, results, presult, body, ret, status, response>>

\* HandlebarsAdapter::new()
RegisterInit ==
    /\ AdapterOnly
    /\ disk = TemplateDisk
    /\ registry = EmptyRegistry
    /\ calls = <<>>

\* adapter.register_template(name, path)
CallRegisterTemplate ==
    /\ Len(calls) < MaxCalls
    /\ \E name \in TemplateNames, path \in TemplatePaths :
          LET r == register_template(registry, disk, name, path)
          IN  /\ registry' = r.registry
              /\ calls' = Append(calls, RegisterCall(name, path, r))
    /\ UNCHANGED <<adapterRest, disk>>

\* adapter.render(name, data)
CallRender ==
    /\ Len(calls) < MaxCalls
    /\ \E name \in TemplateNames, render_ok \in BOOLEAN :
          LET data == render_data(<<Row(1)>>)
              r == render(registry, name, data, render_ok)
          IN  calls' = Append(calls, RenderCall(name, data, r))
    /\ UNCHANGED <<adapterRest, disk, registry>>

RegisterNext == CallRegisterTemplate \/ CallRender

SpecRegister == RegisterInit /\ [][RegisterNext]_vars

\* the last successful register_template call under name among the first k
\* calls (0: there is none)
LastRegistration(name, k) ==
    LET made == {i \in 1..k : /\ calls[i].op = "register_template"
                              /\ calls[i].ok
                              /\ calls[i].args[1] = name}
    IN  IF made = {} THEN 0 ELSE CHOOSE i \in made : \A j \in made : j <= i

\* the content of the file a register_template call was given
RegisteredContent(i) == FileAt(disk, calls[i].args[2]).entry.content

\* C12: a render of a name uses the content of the most recent successful
\* register_template call under that name, whatever was registered under
\* that name before and under other names at any time, and fails for a name
\* with no successful registration; the registry binds each name to that
\* content and nothing else.
C12_LastWriteWins ==
    /\ \A k \in 1..Len(calls) :
          calls[k].op = "render" =>
              LET last == LastRegistration(calls[k].args[1], k)
              IN  IF last = 0 THEN ~calls[k].ok
                  ELSE calls[k].ok => calls[k].value.template = RegisteredContent(last)
    /\ \A name \in TemplateNames :
          LET last == LastRegistration(name, Len(calls))
          IN  IF last = 0 THEN ~Registered(registry, name)
              ELSE /\ Registered(registry, name)
                   /\ TemplateOf(registry, name) = RegisteredContent(last)
                   /\ Cardinality({e \in registry : e.name = name}) = 1

\* "a" was registered with x.hbs, then with y.hbs, and then rendered
C12_Witness ==
    /\ Len(calls) = 3
    /\ calls[1].op = "register_template"
    /\ calls[1].ok
    /\ calls[1].args = <<S("a"), S("d/x.hbs")>>
    /\ calls[2].op = "register_template"
    /\ calls[2].ok
    /\ calls[2].args = <<S("a"), S("d/y.hbs")>>
    /\ calls[3].op = "render"
    /\ calls[3].ok
    /\ calls[3].args[1] = S("a")


(***************************************************************************)
(* content_type.rs: negotiate_content_type called on requests of all       *)
(* header lists.                                                           *)
(***************************************************************************)
MaxHeaders == 2    \* most headers of a request whose list has one part

NegotiateHeaders ==
    {Header(k, v) :
        k \in {S("Accept"), S("accept"), S("Host")},
        v \in {S("application/json"), S("text/html"), S("*/*"),
               S("text/html, application/json"),
               S("application/json, text/html"), S("Application/JSON")}}

\* a first part that is full, so that further headers go to a second part
FullPart == [i \in 1..HeadersPerPart |-> Header(S("X-Pad"), S("v"))]

NegotiateHeaderLists ==
    {HeaderList(part, <<>>) : part \in SeqsUpTo(NegotiateHeaders, MaxHeaders)}
    \cup {HeaderList(FullPart, <<h>>) : h \in NegotiateHeaders}

NegotiateInit ==
    /\ ParseIdle
    /\ ResolveIdle
    /\ vconfig = <<>> /\ logger = <<>> /\ main_conf = <<>> /\ disk = <<>>
    /\ request \in [headers : NegotiateHeaderLists, args : {<<>>},
                    variables : {<<>>}]
    /\ pc = "call"
    /\ resolved_params = <<>> /\ content_type = "none"
    /\ registry = {} /\ results = <<>> /\ presult = <<>> /\ body = <<>>
    /\ ret = "none" /\ status = "unset" /\ response = <<>> /\ calls = <<>>

\* negotiate_content_type(request)
CallNegotiateContentType ==
    /\ pc = "call"
    /\ content_type' = negotiate_content_type(request)
    /\ pc' = "return"
    /\ UNCHANGED <<parseVars, resolveVars, reqEnv, resolved_params, registry,
                   results, presult, body, ret, status, response, calls>>

NegotiateNext == CallNegotiateContentType

SpecNegotiate == NegotiateInit /\ [][NegotiateNext]_vars

\* every header of the request, in the order it arrived
AllHeaders(req) == req.headers.part \o req.headers.next

\* an Accept value that asks for JSON: read without regard to case, it has
\* application/json and has no text/html before it
AsksForJson(value) ==
    LET v == to_uppercase(value)
        json_pos == find(v, S("APPLICATION/JSON"))
        html_pos == find(v, S("TEXT/HTML"))
    IN  /\ contains(v, S("APPLICATION/JSON"))
        /\ ~contains(v, S("TEXT/HTML")) \/ json_pos < html_pos

\* C13: negotiate_content_type returns Json exactly when the request has an
\* Accept header whose value, read without regard to case, has
\* application/json and either has no text/html or has application/json
\* first; in every other case it returns Html.
C13_JsonIffAcceptPrefersJson ==
    pc = "return" =>
        /\ content_type \in {"Json", "Html"}
        /\ content_type = "Json" <=>
              \E i \in 1..Len(AllHeaders(request)) :
                  /\ eq_ignore_ascii_case(AllHeaders(request)[i].key, S("accept"))
                  /\ AsksForJson(AllHeaders(request)[i].value)


\* C14: a request whose query string carries the flag that asks for JSON is
\* answered as JSON, whatever its Accept headers are: JSON is the negotiated
\* content type, and the Content-Type of a response that is sent.
C14_QueryFlagGivesJson ==
    request.args = S("format=json") =>
        /\ content_type \in {"none", "Json"}
        /\ (pc = "done" /\ ret = "NGX_DONE") =>
              response.content_type = content_type_header("Json")


\* C15: once JSON is the negotiated content type, the only collaborator call
\* of the request is one execute: no load_from_dir, no register_template, no
\* render, and the registry stays empty; when execute succeeded the body is
\* the JSON of the rows it returned, in their order, and it is sent with the
\* JSON Content-Type.
C15_JsonSkipsTemplates ==
    content_type = "Json" =>
        /\ \A i \in 1..Len(calls) : calls[i].op = "execute"
        /\ Len(calls) = IF pc = "execute_json" THEN 0 ELSE 1
        /\ registry = EmptyRegistry
        /\ presult = Ok(NoBody)
        /\ (pc \in {"send", "done"} /\ calls[1].ok) =>
              /\ calls[1].args = <<vconfig.db_path, vconfig.query, resolved_params>>
              /\ body = JsonRows(calls[1].value)
        /\ (pc = "done" /\ ret = "NGX_DONE") =>
              response = [content_type |-> S("application/json; charset=utf-8"),
                          body |-> body]

\* the two rows of a successful query were sent as JSON
C15_Witness ==
    /\ content_type = "Json"
    /\ pc = "done"
    /\ ret = "NGX_DONE"
    /\ Len(calls) = 1
    /\ calls[1].ok
    /\ calls[1].value = <<Row(2), Row(1)>>
    /\ response.body = JsonRows(<<Row(2), Row(1)>>)


(***************************************************************************)
(* query.rs: execute_query called on a database file, as its tests call    *)
(* it. Here the files on disk are the database files, each a store.        *)
(***************************************************************************)
MaxBytes == 2      \* most bytes of a stored text or blob

QueryDb == S("q.db")

TextBytes == {65, 169, 195, 255}

BlobBytes == {0, 10, 171, 255}

QueryValues ==
    {SqlNull, SqlInteger(42), SqlInteger(-1), SqlReal("3.14"), SqlReal("NaN"),
     SqlReal("inf"), SqlReal("-inf"), SqlBlob(<<222, 173, 190, 239>>)}
    \cup {SqlText(b) : b \in SeqsUpTo(TextBytes, MaxBytes)}
    \cup {SqlBlob(b) : b \in SeqsUpTo(BlobBytes, MaxBytes)}

\* rows of one column, of every value; rows of two columns, also of one name
QueryRows ==
    {<<Cell(S("a"), v)>> : v \in QueryValues}
    \cup {<<Cell(S("a"), v), Cell(c, w)>> :
            v \in {SqlNull, SqlInteger(42), SqlText(<<65>>)},
            w \in {SqlReal("inf"), SqlBlob(<<10>>), SqlInteger(42)},
            c \in {S("a"), S("b")}}

QueryStores ==
    {Store(TRUE, TRUE, <<>>, <<r>>, 0) : r \in QueryRows}
    \cup {Store(TRUE, TRUE, ph, rows, fail_at) :
            ph \in {<<>>, <<<<>>>>},
            rows \in {<<>>, <<StoredRow(1)>>, <<StoredRow(2), StoredRow(1)>>},
            fail_at \in 0..3}
    \cup {Store(FALSE, FALSE, <<>>, <<StoredRow(1)>>, 0),
          Store(TRUE, FALSE, <<>>, <<StoredRow(1)>>, 0)}

QueryParams == {<<>>, <<Pair(<<>>, S("7"))>>}

QueryInit ==
    /\ ParseIdle
    /\ ResolveIdle
    /\ vconfig = <<>> /\ logger = <<>> /\ main_conf = <<>> /\ request = <<>>
    /\ disk \in {[f \in {QueryDb} |-> s] :
                    s \in {x \in QueryStores : x.fail_at <= Len(x.rows) + 1}}
    /\ pc = "call"
    /\ resolved_params = <<>> /\ content_type = "none"
    /\ registry = {} /\ results = <<>> /\ presult = <<>> /\ body = <<>>
    /\ ret = "none" /\ status = "unset" /\ response = <<>> /\ calls = <<>>

\* execute_query(db_path, query, params)
CallExecuteQuery ==
    /\ pc = "call"
    /\ \E params \in QueryParams :
          LET q == execute_query(disk[QueryDb], params)
          IN  /\ calls' = Append(calls, ExecuteCall(QueryDb, S("SELECT 1"), params, q))
              /\ presult' = q.result
    /\ pc' = "return"
    /\ UNCHANGED <<parseVars, resolveVars, reqEnv, resolved_params, content_type,
                   registry, results, body, ret, status, response>>

QueryNext == CallExecuteQuery

SpecQuery == QueryInit /\ [][QueryNext]_vars


\* the value of a hexadecimal digit given by its code point: 0..9, a..f
HexValue(c) == IF c \in 48..57 THEN c - 48 ELSE c - 87

\* the UTF-8 bytes of characters below U+0800
RECURSIVE Utf8Bytes(_)
Utf8Bytes(chars) ==
    IF chars = <<>> THEN <<>>
    ELSE (IF Head(chars) < 128 THEN <<Head(chars)>>
          ELSE <<192 + (Head(chars) \div 64), 128 + (Head(chars) % 64)>>)
         \o Utf8Bytes(Tail(chars))

\* what the claim says of one stored value v and the JSON value j made of it
Converts(v, j) ==
    CASE v.type = "Null" -> j = JsonNull
      [] v.type = "Integer" -> j = JsonInteger(v.int)
      [] v.type = "Real" ->
            IF v.real \in {"NaN", "inf", "-inf"} THEN j = JsonNull
            ELSE j = JsonReal(v.real)
      [] v.type = "Text" ->
            /\ j.json = "string"
            /\ (\A i \in 1..Len(v.bytes) : v.bytes[i] < 128) => j.chars = v.bytes
            /\ (\A i \in 1..Len(j.chars) : j.chars[i] # REPLACEMENT_CHARACTER)
                  => Utf8Bytes(j.chars) = v.bytes
            /\ (\E i \in 1..Len(v.bytes) : v.bytes[i] = 255)
                  => \E i \in 1..Len(j.chars) : j.chars[i] = REPLACEMENT_CHARACTER
      [] v.type = "Blob" ->
            /\ j.json = "string"
            /\ Len(j.chars) = 2 * Len(v.bytes)
            /\ \A i \in 1..Len(j.chars) : j.chars[i] \in (48..57) \cup (97..102)
            /\ \A i \in 1..Len(v.bytes) :
                  16 * HexValue(j.chars[2 * i - 1]) + HexValue(j.chars[2 * i]) = v.bytes[i]
            /\ v.bytes = <<222, 173, 190, 239>>
                  => j.chars = <<100, 101, 97, 100, 98, 101, 101, 102>>

\* C16: every row execute_query returns maps exactly the column names of
\* the stored row, each to the conversion of its stored value (of the last
\* column of that name): NULL to null, an INTEGER to the same integer, a
\* REAL to the same number or to null when it is NaN or infinite, a TEXT to
\* the string of its lossy UTF-8 decoding, a BLOB of n bytes to 2n lower-case
\* hexadecimal digits, two per byte, high nibble first (DEADBEEF gives
\* "deadbeef").
C16_ColumnConversion ==
    \A k \in 1..Len(calls) :
        (calls[k].op = "execute" /\ calls[k].ok) =>
            LET rows == disk[QueryDb].rows
                out == calls[k].value
            IN  /\ Len(out) = Len(rows)
                /\ \A r \in 1..Len(rows) :
                      /\ DOMAIN out[r] = {rows[r][i].column : i \in 1..Len(rows[r])}
                      /\ \A i \in 1..Len(rows[r]) :
                            (\A n \in (i + 1)..Len(rows[r]) :
                                rows[r][n].column # rows[r][i].column)
                            => Converts(rows[r][i].value, out[r][rows[r][i].column])

\* a row with the blob DEADBEEF was returned
C16_Witness ==
    /\ pc = "return"
    /\ calls[1].ok
    /\ disk[QueryDb].rows = <<<<Cell(S("a"), SqlBlob(<<222, 173, 190, 239>>))>>>>
    /\ calls[1].value[1][S("a")].json = "string"


\* something fails in a call of execute_query on store s with params: the
\* file does not open, the statement does not prepare, the positional
\* parameters are not as many as the placeholders, or a row cannot be
\* stepped to or read
SomethingFails(s, params) ==
    \/ ~s.open_ok
    \/ ~s.prepare_ok
    \/ Len(params) # Len(s.placeholders)
    \/ s.fail_at \in 1..(Len(s.rows) + 1)

\* C17: execute_query returns Ok exactly when nothing fails, and then with
\* one converted row for every stored row, in their order; when anything
\* fails, also at a row after rows that were converted, it returns one Err
\* and no row.
C17_AllOrNothing ==
    \A k \in 1..Len(calls) :
        calls[k].op = "execute" =>
            LET s == disk[QueryDb]
            IN  /\ calls[k].ok <=> ~SomethingFails(s, calls[k].args[3])
                /\ calls[k].ok =>
                      /\ Len(calls[k].value) = Len(s.rows)
                      /\ \A i \in 1..Len(s.rows) :
                            calls[k].value[i] = row_to_map(s.rows[i])
                      /\ s.rows = <<StoredRow(2), StoredRow(1)>>
                            => calls[k].value = <<Row(2), Row(1)>>
                /\ ~calls[k].ok =>
                      /\ calls[k].value = <<>>
                      /\ presult = Err(presult.err)
                      /\ presult.err # <<>>

\* the second of two rows could not be read, after the first was converted
C17_Witness ==
    /\ pc = "return"
    /\ disk[QueryDb].rows = <<StoredRow(2), StoredRow(1)>>
    /\ disk[QueryDb].fail_at = 2
    /\ calls[1].args[3] = <<>>
    /\ disk[QueryDb].placeholders = <<>>
    /\ ~calls[1].ok
    /\ calls[1].value = <<>>


(***************************************************************************)
(* handler_types.rs: two requests in progress at once. Each variable of a  *)
(* request is a function of the request; the registries that exist are a   *)
(* sequence, and each request holds the number of the one its processor    *)
(* was given. The files and the main configuration are shared and only     *)
(* read. The steps are those of process_request, with the directory        *)
(* entries read in one order and every read, render and send succeeding.   *)
(***************************************************************************)
Requests == {1, 2}

HandlebarsAdapter_new_shared(adapters) ==
    IF adapters = <<>> THEN [adapters |-> <<EmptyRegistry>>, reg |-> 1]
    ELSE [adapters |-> adapters, reg |-> 1]

\* HandlebarsAdapter::new(): one more registry, empty, and its number
HandlebarsAdapter_new(adapters) ==
    [adapters |-> Append(adapters, EmptyRegistry), reg |-> Len(adapters) + 1]

\* the order read_dir yields a directory in
read_order(files, dir_path) == CHOOSE o \in ReadOrders(files, dir_path) : TRUE

\* the locals of process_request when it is entered
Entered ==
    [pc |-> "start", resolved_params |-> <<>>, content_type |-> "none",
     reg |-> 0, results |-> <<>>, presult |-> Ok(NoBody), body |-> NoBody,
     ret |-> "none", status |-> "unset",
     response |-> [content_type |-> <<>>, body |-> NoBody], calls |-> <<>>]

\* process_request up to its content type: one step of a request with
\* locals st in environment env
request_step_before_process(env, st, adapters) ==
    IF st.pc = "start"
    THEN LET r == resolve_parameters(env.vconfig.parameters,
                      NginxVariableResolver(env.request, env.vconfig.parameters))
         IN  [adapters |-> adapters,
              st |-> IF r.result.ok
                     THEN [st EXCEPT !.resolved_params = r.result.value,
                                     !.pc = "negotiate"]
                     ELSE [st EXCEPT !.pc = "done", !.ret = "BAD_REQUEST"]]
    ELSE IF st.pc = "negotiate"
    THEN LET ct == negotiate_content_type(env.request)
         IN  [adapters |-> adapters,
              st |-> [st EXCEPT !.content_type = ct,
                                !.pc = IF ct = "Json" THEN "execute_json"
                                       ELSE "process"]]
    ELSE LET q == execute_query(env.files[env.vconfig.db_path], st.resolved_params)
             call == ExecuteCall(env.vconfig.db_path, env.vconfig.query,
                                 st.resolved_params, q)
         IN  IF st.pc = "execute_json"
             THEN [adapters |-> adapters,
                   st |-> [st EXCEPT !.calls = Append(st.calls, call),
                                     !.body = IF q.result.ok
                                              THEN JsonRows(q.result.value)
                                              ELSE JsonError(q.result.err),
                                     !.pc = "send"]]
             ELSE LET new == HandlebarsAdapter_new(adapters)
                      e == Err(S("query execution failed: ") \o q.result.err)
                  IN  [adapters |-> new.adapters,
                       st |-> IF q.result.ok
                              THEN [st EXCEPT !.reg = new.reg,
                                              !.calls = Append(st.calls, call),
                                              !.results = q.result.value,
                                              !.pc = IF env.main_conf.global_templates_dir # <<>>
                                                     THEN "load_global"
                                                     ELSE "load_local"]
                              ELSE [st EXCEPT !.reg = new.reg,
                                              !.calls = Append(st.calls, call),
                                              !.presult = e,
                                              !.body = page_of(e),
                                              !.pc = "send"]]


\* RequestProcessor::process after the query, and the sending of the body:
\* one step of a request with locals st in environment env
request_step_in_process(env, st, adapters) ==
    LET rt == resolve_template_path(env.vconfig)
        g == env.main_conf.global_templates_dir
    IN  IF st.pc = "load_global"
        THEN LET l == load_templates_from_dir(adapters[st.reg], env.files, g,
                          read_order(env.files, g), 0)
             IN  [adapters |-> [adapters EXCEPT ![st.reg] = l.registry],
                  st |-> [st EXCEPT !.calls = Append(st.calls, LoadCall(g, l)),
                                    !.pc = "load_local"]]
        ELSE IF st.pc = "load_local"
        THEN LET l == load_templates_from_dir(adapters[st.reg], env.files,
                          rt.directory, read_order(env.files, rt.directory), 0)
             IN  [adapters |-> [adapters EXCEPT ![st.reg] = l.registry],
                  st |-> [st EXCEPT !.calls = Append(st.calls, LoadCall(rt.directory, l)),
                                    !.pc = "register"]]
        ELSE IF st.pc = "register"
        THEN LET r == register_template(adapters[st.reg], env.files,
                          S("template"), rt.full_path)
                 e == Err(S("failed to register template: ") \o r.result.err)
                 call == RegisterCall(S("template"), rt.full_path, r)
             IN  [adapters |-> [adapters EXCEPT ![st.reg] = r.registry],
                  st |-> IF r.result.ok
                         THEN [st EXCEPT !.calls = Append(st.calls, call),
                                         !.pc = "render"]
                         ELSE [st EXCEPT !.calls = Append(st.calls, call),
                                         !.presult = e,
                                         !.body = page_of(e),
                                         !.pc = "send"]]
        ELSE IF st.pc = "render"
        THEN LET data == render_data(st.results)
                 r == render(adapters[st.reg], S("template"), data, TRUE)
                 p == IF r.ok THEN Ok(RenderedBody(r.value))
                      ELSE Err(S("rendering failed: ") \o r.err)
             IN  [adapters |-> adapters,
                  st |-> [st EXCEPT !.calls = Append(st.calls,
                                                 RenderCall(S("template"), data, r)),
                                    !.presult = p,
                                    !.body = page_of(p),
                                    !.pc = "send"]]
        ELSE [adapters |-> adapters,
              st |-> [st EXCEPT !.status = "OK",
                                !.ret = "NGX_DONE",
                                !.response = [content_type |->
                                                 content_type_header(st.content_type),
                                              body |-> st.body],
                                !.pc = "done"]]

\* one step of process_request
request_step(env, st, adapters) ==
    IF st.pc \in {"start", "negotiate", "execute_json", "process"}
    THEN request_step_before_process(env, st, adapters)
    ELSE request_step_in_process(env, st, adapters)

\* the locals of a request, with the registry it holds in place of its
\* number (the empty registry when it holds none)
Locals(st, adapters) ==
    [pc |-> st.pc, resolved_params |-> st.resolved_params,
     content_type |-> st.content_type, results |-> st.results,
     presult |-> st.presult, body |-> st.body, ret |-> st.ret,
     status |-> st.status, response |-> st.response, calls |-> st.calls,
     registry |-> IF st.reg = 0 THEN EmptyRegistry ELSE adapters[st.reg]]

\* a request run on its own from locals st until it is at step at
RECURSIVE run_alone(_, _, _, _)
run_alone(env, st, adapters, at) ==
    IF st.pc = at \/ st.pc = "done" THEN Locals(st, adapters)
    ELSE LET n == request_step(env, st, adapters)
         IN  run_alone(env, n.st, n.adapters, at)


\* the locations of the two requests: /b and /c under the same root, with
\* no sqlite_param or with one bound to $a
TwoConfigs(uri) ==
    {parse_config([BaseConfig EXCEPT !.query_params = l], DocRoot, uri).value :
        l \in {<<>>, <<RawParam(<<>>, S("$a"))>>}}

TwoRequests ==
    [headers : {HeaderList(<<>>, <<>>),
                HeaderList(<<Header(S("Accept"), S("application/json"))>>, <<>>)},
     args : {<<>>},
     variables : [{S("a")} -> {NotFound, Value(S("7"))}]]

\* the files both requests read: the directories of the two locations, the
\* global template directory and the database
TwoDisk(c_entries, store) ==
    [f \in {S("r/b"), S("r/c"), GlobalDir, BaseConfig.db_path} |->
        IF f = S("r/b")
        THEN {Entry(S("t.hbs"), TRUE, "M"), Entry(S("template.hbs"), TRUE, "L")}
        ELSE IF f = S("r/c") THEN c_entries
        ELSE IF f = GlobalDir THEN {Entry(S("template.hbs"), TRUE, "G")}
        ELSE store]

TwoInit ==
    /\ ParseIdle
    /\ ResolveIdle
    /\ logger = <<>>
    /\ vconfig \in {[r \in Requests |-> IF r = 1 THEN b ELSE c] :
                       b \in TwoConfigs(S("/b")), c \in TwoConfigs(S("/c"))}
    /\ request \in [Requests -> TwoRequests]
    /\ main_conf \in {[global_templates_dir |-> <<>>],
                      [global_templates_dir |-> GlobalDir]}
    /\ disk \in {TwoDisk(c, s) :
                    c \in {{Entry(S("t.hbs"), TRUE, "N")}, {Entry(S("u.hbs"), TRUE, "U")}},
                    s \in {Store(TRUE, TRUE, <<>>, <<StoredRow(1), StoredRow(2)>>, 0),
                           Store(TRUE, TRUE, <<<<>>>>, <<StoredRow(2)>>, 0)}}
    /\ pc = [r \in Requests |-> Entered.pc]
    /\ resolved_params = [r \in Requests |-> Entered.resolved_params]
    /\ content_type = [r \in Requests |-> Entered.content_type]
    /\ registry = [adapters |-> <<>>, reg |-> [r \in Requests |-> Entered.reg]]
    /\ results = [r \in Requests |-> Entered.results]
    /\ presult = [r \in Requests |-> Entered.presult]
    /\ body = [r \in Requests |-> Entered.body]
    /\ ret = [r \in Requests |-> Entered.ret]
    /\ status = [r \in Requests |-> Entered.status]
    /\ response = [r \in Requests |-> Entered.response]
    /\ calls = [r \in Requests |-> Entered.calls]

\* what request r is given, and its locals
EnvOf(r) ==
    [vconfig |-> vconfig[r], request |-> request[r], main_conf |-> main_conf,
     files |-> disk]

StateOf(r) ==
    [pc |-> pc[r], resolved_params |-> resolved_params[r],
     content_type |-> content_type[r], reg |-> registry.reg[r],
     results |-> results[r], presult |-> presult[r], body |-> body[r],
     ret |-> ret[r], status |-> status[r], response |-> response[r],
     calls |-> calls[r]]

\* request r takes its next step
TwoStep(r) ==
    /\ pc[r] # "done"
    /\ \E n \in {request_step(EnvOf(r), StateOf(r), registry.adapters)} :
           /\ pc' = [pc EXCEPT ![r] = n.st.pc]
           /\ resolved_params' = [resolved_params EXCEPT ![r] = n.st.resolved_params]
           /\ content_type' = [content_type EXCEPT ![r] = n.st.content_type]
           /\ registry' = [adapters |-> n.adapters,
                           reg |-> [registry.reg EXCEPT ![r] = n.st.reg]]
           /\ results' = [results EXCEPT ![r] = n.st.results]
           /\ presult' = [presult EXCEPT ![r] = n.st.presult]
           /\ body' = [body EXCEPT ![r] = n.st.body]
           /\ ret' = [ret EXCEPT ![r] = n.st.ret]
           /\ status' = [status EXCEPT ![r] = n.st.status]
           /\ response' = [response EXCEPT ![r] = n.st.response]
           /\ calls' = [calls EXCEPT ![r] = n.st.calls]
    /\ UNCHANGED <<parseVars, resolveVars, reqEnv>>

TwoNext == \E r \in Requests : TwoStep(r)

SpecTwo == TwoInit /\ [][TwoNext]_vars

\* C18: in every interleaving of the steps of two requests, the locals of
\* each request (its resolved parameters, its rows, its registry, its calls,
\* its body and its response) are at every step what they are at that step
\* when the request runs on its own over the same files, and the two
\* requests never hold the same registry.
C18_RequestsDoNotInterfere ==
    /\ \A r \in Requests :
          Locals(StateOf(r), registry.adapters)
              = run_alone(EnvOf(r), Entered, <<>>, pc[r])
    /\ \A r, o \in Requests :
          (r # o /\ registry.reg[r] # 0) => registry.reg[r] # registry.reg[o]

\* both requests are about to render, each with its own main template
C18_Witness ==
    /\ pc[1] = "render"
    /\ pc[2] = "render"
    /\ TemplateOf(registry.adapters[registry.reg[1]], S("template")) = "M"
    /\ TemplateOf(registry.adapters[registry.reg[2]], S("template")) = "N"
    /\ results[1] = results[2]


(***************************************************************************)
(* template.rs: load_from_dir called on an adapter, on paths of every kind *)
(* and on directories that can be read.                                    *)
(***************************************************************************)
MaxLoads == 3      \* most load_from_dir calls made on one adapter

\* two directories: one of template files, good, not compilable and with
\* the extension in upper case; one with a file of another extension, a
\* directory named like a template and a subdirectory holding a template
LoadDisks ==
    {[d \in {S("d")} |->
        {Entry(S("x.hbs"), TRUE, "X"), Entry(S("y.hbs"), TRUE, "Y"),
         Entry(S("bad.hbs"), TRUE, "BAD"), Entry(S("u.HBS"), TRUE, "U")}],
     [d \in {S("d"), S("d/sub")} |->
        IF d = S("d")
        THEN {Entry(S("x.hbs"), TRUE, "X"), Entry(S("n.txt"), TRUE, "T"),
              Entry(S("k.hbs"), FALSE, ""), Entry(S("sub"), FALSE, "")}
        ELSE {Entry(S("deep.hbs"), TRUE, "D")}]}

\* a directory, a subdirectory, a regular file and a path with nothing at it
LoadPaths == {S("d"), S("d/sub"), S("d/x.hbs"), S("nowhere")}

\* the adapter when the calls begin: new, or with templates registered
LoadRegistries ==
    {EmptyRegistry,
     {[name |-> S("x"), content |-> "OLD"], [name |-> S("z"), content |-> "Z"]}}

LoadInit ==
    /\ AdapterOnly
    /\ disk \in LoadDisks
    /\ registry \in LoadRegistries
    /\ calls = <<>>

\* adapter.load_from_dir(dir_path)
CallLoadFromDir ==
    /\ Len(calls) < MaxLoads
    /\ \E dir_path \in LoadPaths :
       \E order \in ReadOrders(disk, dir_path) :
          LET l == load_templates_from_dir(registry, disk, dir_path, order, 0)
          IN  /\ registry' = l.registry
              /\ calls' = Append(calls, LoadCall(dir_path, l))
    /\ UNCHANGED <<adapterRest, disk>>

LoadNext == CallLoadFromDir

SpecLoad == LoadInit /\ [][LoadNext]_vars

\* C19: a load_from_dir on a path that is no directory, because nothing is
\* at it or because a file is, returns Ok(0) and leaves the registry as it
\* was.
C19_MissingDirectoryIsEmpty ==
    [][(/\ Len(calls') = Len(calls) + 1
        /\ calls'[Len(calls')].op = "load_from_dir"
        /\ calls'[Len(calls')].args[1] \notin DOMAIN disk)
       => /\ calls'[Len(calls')].ok
          /\ calls'[Len(calls')].value = 0
          /\ registry' = registry]_vars

\* an adapter with templates was asked to load a missing path and then the
\* path of a file, and has its templates as before
C19_Witness ==
    /\ Len(calls) = 2
    /\ calls[1].args = <<S("nowhere")>>
    /\ calls[1].ok /\ calls[1].value = 0
    /\ calls[2].args = <<S("d/x.hbs")>>
    /\ calls[2].ok /\ calls[2].value = 0
    /\ registry = {[name |-> S("x"), content |-> "OLD"],
                   [name |-> S("z"), content |-> "Z"]}

ConfigInputs ==
    [db_path : {<<>>, S("t.db")},
     query : {<<>>, S("SELECT 1"), S("DELETE FROM x"), S(" select 1")},
     template_path : {<<>>, S("list.hbs"), S("list.html"), S("x/index.hbs")},
     query_params : {<<>>,
                     <<RawParam(<<>>, S("$arg_id"))>>,
                     <<RawParam(S(":id"), S("lit")), RawParam(<<>>, S("$"))>>,
                     <<RawParam(S("id"), S("lit"))>>}]

\* what get_doc_root_and_uri returns for the request
RequestPaths ==
    {[doc_root |-> <<>>, uri |-> <<>>],
     [doc_root |-> S("server_root"), uri |-> S("/books")],
     [doc_root |-> S("public/"), uri |-> S("/docs/")]}

ConfigInit ==
    /\ ResolveIdle
    /\ config \in ConfigInputs
    /\ parsed = NoCall
    /\ request \in RequestPaths
    /\ vconfig = <<>> /\ logger = <<>> /\ main_conf = <<>> /\ disk = <<>>
    /\ pc = "idle" /\ resolved_params = <<>> /\ content_type = "none"
    /\ registry = {} /\ results = <<>> /\ presult = <<>> /\ body = <<>>
    /\ ret = "none" /\ status = "unset" /\ response = <<>> /\ calls = <<>>

\* parse_config(&config, doc_root, uri)
CallParseConfig ==
    /\ parsed = NoCall
    /\ parsed' = [fn |-> "parse_config",
                  result |-> parse_config(config, request.doc_root, request.uri)]
    /\ UNCHANGED <<config, resolveVars, requestVars>>

\* ValidConfigToken::new: from_config(config, doc_root, uri); the handler
\* keeps the token's ValidatedConfig for process_request
CallFromConfig ==
    /\ parsed = NoCall
    /\ LET token == from_config(config, request.doc_root, request.uri)
       IN  /\ parsed' = [fn |-> "from_config", result |-> token]
           /\ vconfig' = IF token.some THEN token.value.config ELSE vconfig
           /\ pc' = IF token.some THEN "token" ELSE pc
    /\ UNCHANGED <<config, resolveVars, main_conf, request, disk, logger,
                   resolved_params, content_type, registry, results, presult,
                   body, ret, status, response, calls>>

\* process_request: domain::resolve_template_path(&validated_config)
CallResolveTemplatePath ==
    /\ pc = "token"
    /\ parsed' = [fn |-> "resolve_template_path",
                  result |-> resolve_template_path(vconfig)]
    /\ pc' = "resolved"
    /\ UNCHANGED <<config, resolveVars, reqEnv, resolved_params, content_type,
                   registry, results, presult, body, ret, status, response, calls>>

ConfigNext ==
    \/ CallParseConfig
    \/ CallFromConfig
    \/ CallResolveTemplatePath

SpecConfig == ConfigInit /\ [][ConfigNext]_vars

\* the four requirements on the directive values, stated on the texts
DbPathValid(c) == c.db_path # <<>>
QueryValid(c) == IsSelectText(c.query)
TemplatePathValid(c) == c.template_path # <<>> /\ HasHbsFileName(c.template_path)
ParametersValid(c) ==
    \A i \in 1..Len(c.query_params) : ValidRawParam(c.query_params[i])

AllValid(c) ==
    DbPathValid(c) /\ QueryValid(c) /\ TemplatePathValid(c) /\ ParametersValid(c)

\* C21: parse_config succeeds exactly when the database path, the query, the
\* template path and every parameter pair are valid; a failure carries the
\* error of the first failing check in the order db_path, query,
\* template_path, parameters (naming SELECT for a query with other text and
\* .hbs for another extension); a success stores doc_root and uri unchanged
\* and one binding per raw pair, in order.
C21_ParseConfig ==
    parsed.fn = "parse_config" =>
        LET r == parsed.result
        IN  /\ r.ok <=> AllValid(config)
            /\ ~r.ok =>
                  /\ r.value = <<>>
                  /\ IF ~DbPathValid(config)
                     THEN starts_with(r.err, S("invalid db_path: "))
                     ELSE IF ~QueryValid(config)
                     THEN /\ starts_with(r.err, S("invalid query: "))
                          /\ config.query # <<>> => contains(r.err, S("SELECT"))
                     ELSE IF ~TemplatePathValid(config)
                     THEN /\ starts_with(r.err, S("invalid template_path: "))
                          /\ config.template_path # <<>> => contains(r.err, S(".hbs"))
                     ELSE \/ starts_with(r.err, S("invalid variable '"))
                          \/ starts_with(r.err, S("invalid param name '"))
            /\ r.ok =>
                  /\ r.value.db_path = config.db_path
                  /\ r.value.query = config.query
                  /\ r.value.template_path = config.template_path
                  /\ r.value.doc_root = request.doc_root
                  /\ r.value.uri = request.uri
                  /\ Len(r.value.parameters) = Len(config.query_params)
                  /\ \A i \in 1..Len(config.query_params) :
                        r.value.parameters[i] = ExpectedBinding(config.query_params[i])

\* a configuration whose query and template path are both invalid was
\* rejected for its query
C21_Witness ==
    /\ parsed.fn = "parse_config"
    /\ config.db_path # <<>>
    /\ config.query = S("DELETE FROM x")
    /\ config.template_path = S("list.html")
    /\ ~parsed.result.ok
    /\ contains(parsed.result.err, S("SELECT"))



\* C28: from_config gives a token exactly when db_path, query and
\* template_path are non-empty and parse_config succeeds, the token then
\* holding what parse_config returned; so the ValidatedConfig handed to
\* process_request has a non-empty database path, a SELECT query, a .hbs
\* template path and well-formed bindings.
C28_TokenIffValid ==
    /\ parsed.fn = "from_config" =>
          LET token == parsed.result
              r == parse_config(config, request.doc_root, request.uri)
          IN  /\ token.some <=> /\ config.db_path # <<>>
                                /\ config.query # <<>>
                                /\ config.template_path # <<>>
                                /\ r.ok
              /\ token.some <=> AllValid(config)
              /\ token.some => token.value.config = r.value /\ vconfig = r.value
              /\ ~token.some => token = None /\ pc = "idle"
    /\ pc \in {"token", "resolved"} =>
          /\ vconfig.db_path # <<>>
          /\ IsSelectText(vconfig.query)
          /\ HasHbsFileName(vconfig.template_path)
          /\ \A i \in 1..Len(vconfig.parameters) :
                LET b == vconfig.parameters[i]
                IN  /\ b.kind \in {"Named", "NamedLiteral"} =>
                          b.name # <<>> /\ b.name[1] = ":"
                    /\ b.kind \in {"Positional", "Named"} =>
                          Len(b.variable) >= 2 /\ b.variable[1] = "$"

\* a configuration whose only fault is a parameter without a name after
\* its '$' got no token
C28_Witness ==
    /\ parsed.fn = "from_config"
    /\ ~parsed.result.some
    /\ DbPathValid(config) /\ QueryValid(config) /\ TemplatePathValid(config)
    /\ ~ParametersValid(config)

\* the positions lo..hi of p hold separators and "." components only
Skipped(p, lo, hi) ==
    \A k \in lo..hi :
        \/ p[k] = "/"
        \/ /\ p[k] = "."
           /\ k > 1 /\ p[k - 1] = "/"
           /\ (k = Len(p) \/ p[k + 1] = "/")

\* d is p without its last component and without the separators and "."
\* components around it
IsParentOf(d, p) ==
    \E i \in 0..Len(p), a \in 1..Len(p), j \in 1..Len(p) :
        /\ i < a /\ a <= j
        /\ d = SubSeq(p, 1, i)
        /\ i = 0 => p[1] # "/"
        /\ \/ i = 0
           \/ d = <<"/">>
           \/ p[i] # "/" /\ ~(p[i] = "." /\ i >= 2 /\ p[i - 1] = "/")
        /\ Skipped(p, i + 1, a - 1)
        /\ a = 1 \/ p[a - 1] = "/"
        /\ \A k \in a..j : p[k] # "/"
        /\ j = Len(p) \/ p[j + 1] = "/"
        /\ a = 1 \/ SubSeq(p, a, j) # <<".">>
        /\ Skipped(p, j + 1, Len(p))

\* C25: resolve_template_path gives as full_path the texts doc_root, uri,
\* "/" and the template path one after the other, with nothing normalised
\* ("public/" and "/docs/" give "public//docs/"), and as directory the
\* parent of full_path ("server_root/books" for
\* "server_root/books/list.hbs"); the result is the same whatever the other
\* fields of the configuration are.
C25_ResolveTemplatePath ==
    parsed.fn = "resolve_template_path" =>
        LET r == parsed.result
        IN  /\ r.full_path = request.doc_root \o request.uri \o <<"/">>
                                 \o config.template_path
            /\ (request.doc_root = S("public/") /\ request.uri = S("/docs/"))
                  => contains(r.full_path, S("public//docs/"))
            /\ IsParentOf(r.directory, r.full_path)
            /\ r.full_path = S("server_root/books/list.hbs")
                  => r.directory = S("server_root/books")
            /\ r = resolve_template_path(
                       [vconfig EXCEPT !.db_path = S("other.db"),
                                       !.query = S("SELECT 2"),
                                       !.parameters = <<>>])

\* the path under a document root and a uri that both end in a separator
\* was resolved, and its directory keeps the doubled separator inside
C25_Witness ==
    /\ parsed.fn = "resolve_template_path"
    /\ parsed.result.full_path = S("public//docs//x/index.hbs")
    /\ parsed.result.directory = S("public//docs//x")


(***************************************************************************)
(* The failure bodies, the failure stages and the end of every request.    *)
(***************************************************************************)
\* the error texts execute_query can return for the resolved parameters
QueryErrors ==
    {execute_query(s, resolved_params).result.err :
        s \in {t \in Stores : ~execute_query(t, resolved_params).result.ok}}

\* C22: once the body is made, a failed query, registration or render of the
\* rendered representation gives the HTML error page around the error text
\* process returned, a failed query of the structured representation gives
\* the JSON object of "error" and "details" and nothing else, and neither
\* representation ever gives a body of the other.
C22_FailureBodyByRepresentation ==
    pc \in {"send", "done"} =>
        /\ (/\ content_type = "Html"
            /\ Failed("execute") \/ Failed("register_template") \/ Failed("render"))
              => /\ body.kind = "error_page"
                 /\ ~presult.ok
                 /\ presult.err # <<>>
                 /\ body.details = presult.err
        /\ (content_type = "Json" /\ Failed("execute"))
              => /\ body.kind = "json_error"
                 /\ body.error = S("Query execution failed")
                 /\ body.details \in QueryErrors
                 /\ body.rows = <<>>
                 /\ body.template = ""
        /\ content_type = "Html" => body.kind \in {"rendered", "error_page"}
        /\ content_type = "Json" => body.kind \in {"json_rows", "json_error"}

\* a failed render of the rendered representation was answered with the
\* error page
C22_Witness ==
    /\ pc = "done"
    /\ content_type = "Html"
    /\ Failed("render")
    /\ body.kind = "error_page"
    /\ starts_with(body.details, S("rendering failed: "))

\* C23: no step of a request is a panic, whatever the host and the
\* collaborators return.
C23_NoPanic == pc # "panic"

\* C29: in process, a failed execute is the only call made; a failed
\* register_template is the last call made, so that render is not called;
\* and the error returned names the failing stage in front of the error
\* text of the collaborator.
C29_StopsAtFirstFatalFailure ==
    content_type = "Html" =>
        /\ Failed("execute") =>
              /\ Len(calls) = 1
              /\ pc \in {"send", "done"}
              /\ ~presult.ok
              /\ \E e \in QueryErrors :
                    presult.err = S("query execution failed: ") \o e
        /\ Failed("register_template") =>
              /\ calls[Len(calls)].op = "register_template"
              /\ ~Called("render")
              /\ pc \in {"send", "done"}
              /\ ~presult.ok
              /\ presult.err = S("failed to register template: ")
                    \o register_template(EmptyRegistry, disk, S("template"),
                           resolve_template_path(vconfig).full_path).result.err
        /\ Failed("render") =>
              /\ calls[Len(calls)].op = "render"
              /\ pc \in {"send", "done"}
              /\ ~presult.ok
              /\ presult.err = S("rendering failed: ")
                    \o render(registry, S("template"), render_data(results), FALSE).err

\* the main template could not be registered after both directories were
\* loaded, and the request ended without a render
C29_Witness ==
    /\ pc = "done"
    /\ Len(calls) = 4
    /\ calls[4].op = "register_template"
    /\ ~calls[4].ok
    /\ starts_with(presult.err, S("failed to register template: "))



(***************************************************************************)
(* config.rs: the merge of a configuration with the one of the enclosing   *)
(* level, as nginx calls it while it reads its configuration.              *)
(***************************************************************************)
MaxMerges == 2     \* most merges made on one configuration

ModuleConfig_merge_overwriting(self, prev) ==
    [result |-> Ok(<<>>),
     self |-> [db_path |-> IF prev.db_path # <<>> THEN prev.db_path ELSE self.db_path,
               query |-> IF prev.query # <<>> THEN prev.query ELSE self.query,
               template_path |-> IF prev.template_path # <<>>
                                 THEN prev.template_path ELSE self.template_path,
               query_params |-> IF prev.query_params # <<>>
                                THEN prev.query_params ELSE self.query_params]]

\* impl Merge for ModuleConfig: the receiver after the call, and Ok(())
ModuleConfig_merge(self, prev) ==
    [result |-> Ok(<<>>),
     self |-> [db_path |-> IF self.db_path = <<>> THEN prev.db_path ELSE self.db_path,
               query |-> IF self.query = <<>> THEN prev.query ELSE self.query,
               template_path |-> IF self.template_path = <<>>
                                 THEN prev.template_path ELSE self.template_path,
               query_params |-> IF self.query_params = <<>>
                                THEN prev.query_params ELSE self.query_params]]

\* impl Merge for MainConfig
MainConfig_merge(self, prev) ==
    [result |-> Ok(<<>>),
     self |-> [global_templates_dir |->
                  IF self.global_templates_dir = <<>>
                  THEN prev.global_templates_dir ELSE self.global_templates_dir]]

\* a configuration with each directive unset or set to the text of its level
LevelConfigs(level) ==
    [db_path : {<<>>, level \o S(".db")},
     query : {<<>>, S("SELECT ") \o level},
     template_path : {<<>>, level \o S(".hbs")},
     query_params : {<<>>, <<RawParam(<<>>, S("$arg_") \o level)>>}]

LevelMainConfigs(level) ==
    [global_templates_dir : {<<>>, S("templates/") \o level}]

MergeCall(op, before, prev, m) ==
    [op |-> op, args |-> <<before, prev>>, ok |-> m.result.ok, value |-> m.self,
     submitted |-> <<>>]

MergeInit ==
    /\ ResolveIdle
    /\ parsed = NoCall
    /\ config \in LevelConfigs(S("loc"))
    /\ main_conf \in LevelMainConfigs(S("loc"))
    /\ vconfig = <<>> /\ logger = <<>> /\ request = <<>> /\ disk = <<>>
    /\ pc = "idle" /\ resolved_params = <<>> /\ content_type = "none"
    /\ registry = {} /\ results = <<>> /\ presult = <<>> /\ body = <<>>
    /\ ret = "none" /\ status = "unset" /\ response = <<>> /\ calls = <<>>

\* config.merge(&prev)
CallModuleConfigMerge ==
    /\ Len(calls) < MaxMerges
    /\ \E prev \in LevelConfigs(S("srv")) :
          LET m == ModuleConfig_merge(config, prev)
          IN  /\ config' = m.self
              /\ calls' = Append(calls, MergeCall("ModuleConfig::merge", config, prev, m))
    /\ UNCHANGED <<parsed, resolveVars, reqEnv, pc, resolved_params, content_type,
                   registry, results, presult, body, ret, status, response>>

\* main_conf.merge(&prev)
CallMainConfigMerge ==
    /\ Len(calls) < MaxMerges
    /\ \E prev \in LevelMainConfigs(S("http")) :
          LET m == MainConfig_merge(main_conf, prev)
          IN  /\ main_conf' = m.self
              /\ calls' = Append(calls, MergeCall("MainConfig::merge", main_conf, prev, m))
    /\ UNCHANGED <<parseVars, resolveVars, vconfig, logger, request, disk, pc,
                   resolved_params, content_type, registry, results, presult,
                   body, ret, status, response>>

MergeNext ==
    \/ CallModuleConfigMerge
    \/ CallMainConfigMerge

SpecMerge == MergeInit /\ [][MergeNext]_vars

\* the receiver of the last merge call is the configuration it left behind
LastMergeIs(i) ==
    \A j \in (i + 1)..Len(calls) : calls[j].op # calls[i].op

\* C27: every merge returns Ok and leaves in each field of the receiver
\* prev's value when the field was empty before the call and the field's
\* own value otherwise; a second merge of the same prev changes nothing.
C27_MergeInheritsUnsetFields ==
    \A i \in 1..Len(calls) :
        LET before == calls[i].args[1]
            prev == calls[i].args[2]
            after == calls[i].value
        IN  /\ calls[i].ok
            /\ \A f \in DOMAIN before :
                  after[f] = IF before[f] = <<>> THEN prev[f] ELSE before[f]
            /\ calls[i].op = "ModuleConfig::merge" =>
                  /\ ModuleConfig_merge(after, prev).self = after
                  /\ LastMergeIs(i) => config = after
            /\ calls[i].op = "MainConfig::merge" =>
                  /\ MainConfig_merge(after, prev).self = after
                  /\ LastMergeIs(i) => main_conf = after

\* a location that sets only its query took the other three directives
\* from the enclosing level and kept its query
C27_Witness ==
    /\ Len(calls) = 1
    /\ calls[1].op = "ModuleConfig::merge"
    /\ calls[1].args[1] = [db_path |-> <<>>, query |-> S("SELECT loc"),
                           template_path |-> <<>>, query_params |-> <<>>]
    /\ config = [db_path |-> S("srv.db"), query |-> S("SELECT loc"),
                 template_path |-> S("srv.hbs"),
                 query_params |-> <<RawParam(<<>>, S("$arg_srv"))>>]



(***************************************************************************)
(* domain.rs: RequestProcessor::process with the Logger it was built with, *)
(* run by two processors that differ in their Logger only.                 *)
(***************************************************************************)
\* logging.rs log, as NginxLogger calls it: the line is written when the
\* connection has a log
NginxLogger(has_log) == [impl |-> "NginxLogger", has_log |-> has_log, written |-> <<>>]

\* domain.rs tests: MockLogger, whose log does nothing
MockLogger == [impl |-> "MockLogger", has_log |-> FALSE, written |-> <<>>]

\* the nginx level of a LogLevel
log_level(level) ==
    CASE level = "Error" -> 3
      [] level = "Warn" -> 4
      [] level = "Info" -> 6
      [] level = "Debug" -> 7

\* Logger::log(level, module, message)
Logger_log(lg, level, module) ==
    IF lg.impl = "NginxLogger" /\ lg.has_log
    THEN [lg EXCEPT !.written = Append(@, [level |-> log_level(level), module |-> module])]
    ELSE lg

Logger_debug(lg, module) == Logger_log(lg, "Debug", module)
Logger_info(lg, module) == Logger_log(lg, "Info", module)
Logger_warn(lg, module) == Logger_log(lg, "Warn", module)
Logger_error(lg, module) == Logger_log(lg, "Error", module)

\* RequestProcessor::new(query_executor, template_loader, logger): the
\* executor is the database it reads, the loader its registry, the files it
\* reads and whether its engine renders
RequestProcessor_new(store, loader, lg) ==
    [query_executor |-> store, template_loader |-> loader, logger |-> lg]

TemplateSystem(reg, files, io_error_at, render_ok) ==
    [registry |-> reg, files |-> files, io_error_at |-> io_error_at,
     render_ok |-> render_ok]

\* what process leaves behind: its result, the calls it made, and the
\* registry and the logger of the processor
Processed(result, made, reg, lg) ==
    [result |-> result, calls |-> made, registry |-> reg, logger |-> lg]

process_needing_a_log(p, vc, resolved_template, params, global_dir) ==
    LET q == execute_query(p.query_executor, params)
        made == <<ExecuteCall(vc.db_path, vc.query, params, q)>>
        lg == Logger_debug(p.logger, "query")
    IN  IF lg.written = <<>>
        THEN Processed(Err(S("log unavailable")), <<>>, p.template_loader.registry, lg)
        ELSE Processed(IF q.result.ok THEN Ok(NoBody)
                       ELSE Err(S("query execution failed: ") \o q.result.err),
                       made, p.template_loader.registry, lg)

\* process, from the render call on: the registration r succeeded
process_render(t, q, r, made, lg) ==
    Processed(IF render(r.registry, S("template"), render_data(q.result.value),
                        t.render_ok).ok
              THEN Ok(RenderedBody(render(r.registry, S("template"),
                          render_data(q.result.value), t.render_ok).value))
              ELSE Err(S("rendering failed: ")
                       \o render(r.registry, S("template"),
                              render_data(q.result.value), t.render_ok).err),
              Append(made, RenderCall(S("template"), render_data(q.result.value),
                         render(r.registry, S("template"),
                                render_data(q.result.value), t.render_ok))),
              r.registry,
              IF render(r.registry, S("template"), render_data(q.result.value),
                        t.render_ok).ok
              THEN Logger_debug(lg, "render")
              ELSE Logger_error(Logger_debug(lg, "render"), "render"))

\* process, from the outcome r of register_template on
process_registered(t, resolved_template, q, r, made, lg) ==
    IF ~r.result.ok
    THEN Processed(Err(S("failed to register template: ") \o r.result.err),
                   Append(made, RegisterCall(S("template"),
                                    resolved_template.full_path, r)),
                   r.registry, Logger_error(lg, "template"))
    ELSE process_render(t, q, r,
             Append(made, RegisterCall(S("template"),
                              resolved_template.full_path, r)), lg)

\* process, from the outcome l of loading the local templates on
process_loaded(t, resolved_template, q, l, made, lg) ==
    process_registered(t, resolved_template, q,
        register_template(l.registry, t.files, S("template"),
                          resolved_template.full_path),
        Append(made, LoadCall(resolved_template.directory, l)),
        Logger_debug(IF l.result.ok THEN Logger_debug(lg, "templates")
                     ELSE Logger_warn(lg, "templates"), "templates"))

\* process, from the local templates on, with the registry reg the global
\* templates left
process_local(t, resolved_template, q, reg, made, lg) ==
    process_loaded(t, resolved_template, q,
        load_templates_from_dir(reg, t.files, resolved_template.directory,
            read_order(t.files, resolved_template.directory), t.io_error_at),
        made, Logger_debug(lg, "templates"))

\* process, from the outcome g of loading the global templates on
process_global(t, resolved_template, q, dir, g, made, lg) ==
    process_local(t, resolved_template, q, g.registry,
        Append(made, LoadCall(dir, g)),
        IF g.result.ok THEN Logger_info(lg, "templates")
        ELSE Logger_warn(lg, "templates"))

\* process, from the outcome q of the query on
process_executed(t, vc, resolved_template, params, global_dir, q, lg) ==
    IF ~q.result.ok
    THEN Processed(Err(S("query execution failed: ") \o q.result.err),
                   <<ExecuteCall(vc.db_path, vc.query, params, q)>>,
                   t.registry, Logger_error(lg, "query"))
    ELSE IF global_dir.some
         THEN process_global(t, resolved_template, q, global_dir.value,
                  load_templates_from_dir(t.registry, t.files, global_dir.value,
                      read_order(t.files, global_dir.value), t.io_error_at),
                  <<ExecuteCall(vc.db_path, vc.query, params, q)>>,
                  Logger_debug(Logger_debug(lg, "query"), "templates"))
         ELSE process_local(t, resolved_template, q, t.registry,
                  <<ExecuteCall(vc.db_path, vc.query, params, q)>>,
                  Logger_debug(lg, "query"))

\* RequestProcessor::process
process(p, vc, resolved_template, params, global_dir) ==
    process_executed(p.template_loader, vc, resolved_template, params, global_dir,
        execute_query(p.query_executor, params),
        Logger_debug(Logger_debug(p.logger, "processor"), "query"))

Loggers == {NginxLogger(TRUE), NginxLogger(FALSE), MockLogger}

LogInit ==
    /\ ParseIdle
    /\ ResolveIdle
    /\ vconfig = parse_config(BaseConfig, DocRoot, Uri).value
    /\ main_conf \in {[global_templates_dir |-> <<>>],
                      [global_templates_dir |-> GlobalDir]}
    /\ request = <<>>
    /\ disk \in {Disk(l, g) : l \in LocalEntries, g \in GlobalEntries}
    /\ main_conf.global_templates_dir = <<>> => GlobalDir \notin DOMAIN disk
    /\ logger \in [1..2 -> Loggers]
    /\ pc = "process"
    /\ resolved_params \in {<<>>, <<Pair(<<>>, S("7"))>>}
    /\ content_type = "Html"
    /\ registry = [i \in 1..2 |-> EmptyRegistry]
    /\ results = <<>>
    /\ presult = [i \in 1..2 |-> Ok(NoBody)]
    /\ body = NoBody
    /\ ret = "none"
    /\ status = "unset"
    /\ response = [content_type |-> <<>>, body |-> NoBody]
    /\ calls = [i \in 1..2 |-> <<>>]

\* processor.process(config, resolved_template, resolved_params, global_dir)
\* of two processors built with the same executor and loader and with the
\* Logger of each
CallProcess ==
    /\ pc = "process"
    /\ \E store \in Stores, io_error_at \in {0, 1}, render_ok \in BOOLEAN :
          \E out \in {[i \in 1..2 |->
                         process(RequestProcessor_new(store,
                                     TemplateSystem(EmptyRegistry, disk,
                                                    io_error_at, render_ok),
                                     logger[i]),
                                 vconfig, resolve_template_path(vconfig),
                                 resolved_params, global_template_dir)]} :
              /\ presult' = [i \in 1..2 |-> out[i].result]
              /\ calls' = [i \in 1..2 |-> out[i].calls]
              /\ registry' = [i \in 1..2 |-> out[i].registry]
              /\ logger' = [i \in 1..2 |-> out[i].logger]
    /\ pc' = "returned"
    /\ UNCHANGED <<parseVars, resolveVars, vconfig, main_conf, request, disk,
                   resolved_params, content_type, results, body, ret, status,
                   response>>

LogNext == CallProcess

SpecLog == LogInit /\ [][LogNext]_vars

\* C24: two processors that differ in their Logger only make the same
\* query and template calls, with the same arguments and outcomes, and
\* return the same result and the same registry, whatever each Logger does
\* with what it is given.
C24_LoggingDoesNotAlterControlFlow ==
    pc = "returned" =>
        /\ calls[1] = calls[2]
        /\ presult[1] = presult[2]
        /\ registry[1] = registry[2]
        /\ calls[1] # <<>>

\* a processor whose Logger wrote a warning for a directory that could not
\* be read and one whose Logger does nothing both rendered the page
C24_Witness ==
    /\ pc = "returned"
    /\ logger[1].impl = "NginxLogger"
    /\ \E k \in 1..Len(logger[1].written) : logger[1].written[k].level = 4
    /\ logger[2] = MockLogger
    /\ presult[1].ok
    /\ presult[2].ok
    /\ Len(calls[2]) = 5

=============================================================================
